---------------------------- MODULE Spec2Model ----------------------------
(***************************************************************************)
(* PhantomTrace: the rule-matching and obfuscation engine (PhantomTracer)  *)
(* and the line pipeline that drives it (PhantomTraceProcessor).           *)
(*                                                                         *)
(* A text is a sequence of characters.  A character is a string: an ASCII  *)
(* character stands for itself, a character outside ASCII is named by its  *)
(* code point ("U+00E9", "U+2588").  Rust strings are UTF-8, and the code  *)
(* measures and slices them in bytes, so every character carries its UTF-8 *)
(* encoding (Utf8).                                                        *)
(***************************************************************************)
EXTENDS Integers, Sequences, FiniteSets

-----------------------------------------------------------------------------
(* Characters and their UTF-8 encoding.                                    *)

Block == "U+2588"        \* the placeholder character of phantom_string
EAcute == "U+00E9"       \* a two-byte letter

DigitChars == <<"0", "1", "2", "3", "4", "5", "6", "7", "8", "9">>
UpperChars == <<"A", "B", "C", "D", "E", "F", "G", "H", "I", "J", "K", "L", "M",
                "N", "O", "P", "Q", "R", "S", "T", "U", "V", "W", "X", "Y", "Z">>
LowerChars == <<"a", "b", "c", "d", "e", "f", "g", "h", "i", "j", "k", "l", "m",
                "n", "o", "p", "q", "r", "s", "t", "u", "v", "w", "x", "y", "z">>

Range(s) == {s[i] : i \in DOMAIN s}

Digits == Range(DigitChars)
Uppers == Range(UpperChars)
Lowers == Range(LowerChars)

IndexOf(s, c) == CHOOSE i \in DOMAIN s : s[i] = c

\* The other ASCII characters the texts and patterns use, with their codes.
PunctCode == [c \in {"\t", "\n", "\r", " ", "%", "(", ")", "+", "-", ".", ":",
                     "=", "@", "[", "]", "_", "|"} |->
                CASE c = "\t" -> 9   [] c = "\n" -> 10  [] c = "\r" -> 13
                  [] c = " "  -> 32  [] c = "%"  -> 37  [] c = "("  -> 40
                  [] c = ")"  -> 41  [] c = "+"  -> 43  [] c = "-"  -> 45
                  [] c = "."  -> 46  [] c = ":"  -> 58  [] c = "="  -> 61
                  [] c = "@"  -> 64  [] c = "["  -> 91  [] c = "]"  -> 93
                  [] c = "_"  -> 95  [] c = "|"  -> 124]

\* The bytes of one character (str::bytes / str::len count these).
Utf8(c) ==
    IF c \in Digits THEN <<47 + IndexOf(DigitChars, c)>>
    ELSE IF c \in Uppers THEN <<64 + IndexOf(UpperChars, c)>>
    ELSE IF c \in Lowers THEN <<96 + IndexOf(LowerChars, c)>>
    ELSE IF c = EAcute THEN <<195, 169>>
    ELSE IF c = Block THEN <<226, 150, 136>>
    ELSE <<PunctCode[c]>>

Width(c) == Len(Utf8(c))

RECURSIVE ByteLen(_)
\* str::len: the length of a text in bytes.
ByteLen(text) ==
    IF text = <<>> THEN 0 ELSE Width(Head(text)) + ByteLen(Tail(text))

RECURSIVE Bytes(_)
\* str::bytes: the bytes of a text.
Bytes(text) ==
    IF text = <<>> THEN <<>> ELSE Utf8(Head(text)) \o Bytes(Tail(text))

\* The characters of text[from+1 .. to] (character indices, 0-based ends).
Slice(text, from, to) == SubSeq(text, from + 1, to)

\* The byte offset of character position p (0 .. Len(text)).
ByteOffset(text, p) == ByteLen(SubSeq(text, 1, p))

\* The byte offsets that are character boundaries (str::is_char_boundary).
IsCharBoundary(text, b) == \E p \in 0..Len(text) : ByteOffset(text, p) = b

\* The character position of a byte offset that is a boundary.
CharPos(text, b) == CHOOSE p \in 0..Len(text) : ByteOffset(text, p) = b

RECURSIVE Repeat(_, _)
\* str::repeat of a one-character string.
Repeat(c, n) == IF n <= 0 THEN <<>> ELSE <<c>> \o Repeat(c, n - 1)

\* Where the code binds a value (let x = e), the model binds it as the element
\* of a one-element set, CHOOSE y \in {F(x) : x \in {e}} : TRUE, which is
\* F(e) with e evaluated once.  (A LET definition is evaluated again wherever
\* it is used.)

Max(S) == CHOOSE x \in S : \A y \in S : y <= x
Min(S) == CHOOSE x \in S : \A y \in S : x <= y

-----------------------------------------------------------------------------
(* 32-bit arithmetic of phantom_hash.  A u32 is held as two 16-bit limbs,  *)
(* [hi, lo], value hi * 65536 + lo.                                        *)

Limb == 256 * 256

RECURSIVE Xor(_, _)
\* Bitwise exclusive or of two naturals (the ^ of hash ^= byte).
Xor(a, b) ==
    IF a = 0 THEN b
    ELSE IF b = 0 THEN a
    ELSE (((a % 2) + (b % 2)) % 2) + 2 * Xor(a \div 2, b \div 2)

\* 2166136261u32 = 0x811C9DC5
FnvOffset == [hi |-> 33052, lo |-> 40389]

\* hash.wrapping_mul(16777619): 16777619 = 2^24 + 403, and the product is
\* taken modulo 2^32.
WrappingMulPrime(h) ==
    LET low == h.lo * 403
        high == h.hi * 403 + (low \div Limb) + (h.lo % 256) * 256
    IN  [hi |-> high % Limb, lo |-> low % Limb]

RECURSIVE HashBytes(_, _)
\* The loop of phantom_hash: hash ^= byte; hash = hash.wrapping_mul(16777619).
HashBytes(h, bs) ==
    IF bs = <<>> THEN h
    ELSE (CHOOSE y \in {HashBytes(next, Tail(bs)) : next \in {WrappingMulPrime([hi |-> h.hi, lo |-> Xor(h.lo, Head(bs))])}} : TRUE)

\* phantom_hash: FNV-1a over the bytes of the value.
phantom_hash(input) == HashBytes(FnvOffset, Bytes(input))

HexChars == <<"0", "1", "2", "3", "4", "5", "6", "7",
              "8", "9", "A", "B", "C", "D", "E", "F">>

RECURSIVE HexN(_, _)
\* The low n hexadecimal digits of x, uppercase, zero padded.
HexN(x, n) ==
    IF n = 0 THEN <<>> ELSE HexN(x \div 16, n - 1) \o <<HexChars[(x % 16) + 1]>>

\* format!("{:08X}", h)
Hex08(h) == HexN(h.hi, 4) \o HexN(h.lo, 4)

RECURSIVE DecimalDigits(_)
DecimalDigits(h) ==
    IF h.hi = 0 /\ h.lo = 0 THEN <<>>
    ELSE (CHOOSE y \in {(CHOOSE y \in {DecimalDigits(q) \o <<DigitChars[(mid % 10) + 1]>> : q \in {[hi |-> h.hi \div 10, lo |-> mid \div 10]}} : TRUE) : mid \in {(h.hi % 10) * Limb + h.lo}} : TRUE)

\* format!("{}", h) of a u32
Decimal(h) == IF h.hi = 0 /\ h.lo = 0 THEN <<"0">> ELSE DecimalDigits(h)

Str_PHANTOM_ == <<"P", "H", "A", "N", "T", "O", "M", "_">>
Str_TOKEN_ == <<"T", "O", "K", "E", "N", "_">>
Str_token_ == <<"t", "o", "k", "e", "n", "_">>
Str_TRACE_ == <<"T", "R", "A", "C", "E", "_">>

\* A Mirror token with the prefix of the Tokenize tokens.
MirrorToken_TokenPrefix(value) == Str_PHANTOM_ \o Str_TOKEN_ \o Hex08(phantom_hash(value))

\* format!("PHANTOM_{:08X}", phantom_hash(value))
MirrorToken(value) ==
    (CHOOSE y \in {Str_PHANTOM_ \o Hex08(h) : h \in {phantom_hash(value)}} : TRUE)

\* format!("token_{}", phantom_hash(value))
TokenKey(value) ==
    (CHOOSE y \in {Str_token_ \o Decimal(h) : h \in {phantom_hash(value)}} : TRUE)

\* format!("PHANTOM_TOKEN_{:08X}", phantom_hash(value))
MintToken(value) ==
    (CHOOSE y \in {Str_PHANTOM_ \o Str_TOKEN_ \o Hex08(h) : h \in {phantom_hash(value)}} : TRUE)

\* The "[PHANTOMED]" of Mask without a configured replacement.
DefaultMask == <<"[", "P", "H", "A", "N", "T", "O", "M", "E", "D", "]">>

\* generate_trace_id: format!("TRACE_{:016X}", nanos).  The clock of the model
\* stays far below 2^16, so the 64-bit mask leaves it as it is.
generate_trace_id(nanos) == Str_TRACE_ \o HexN(0, 12) \o HexN(nanos, 4)

-----------------------------------------------------------------------------
(* Regular expressions.  A pattern is a sequence of alternatives, tried in *)
(* order at every start position (leftmost-first); an alternative is a     *)
(* sequence of items; an item is the assertion \b or a greedy repetition   *)
(* {min,max} of a character class (max = -1: no upper limit).              *)

WordBoundary == [kind |-> "wb"]
Class(set, min, max) == [kind |-> "class", set |-> set, min |-> min, max |-> max]
Lit(c) == Class({c}, 1, 1)

\* \w: letters, digits and the underscore (the block character is a symbol).
IsWordChar(c) == c \in Digits \cup Uppers \cup Lowers \cup {"_", EAcute}

\* \b at character position pos (0 .. Len(text)).
IsWordBoundary(text, pos) ==
    LET before == pos >= 1 /\ IsWordChar(text[pos])
        after == pos < Len(text) /\ IsWordChar(text[pos + 1])
    IN  before # after

\* The characters a class matches under (?i): both cases of every letter.
CaseFold(set) ==
    set \cup {LowerChars[IndexOf(UpperChars, c)] : c \in set \cap Uppers}
        \cup {UpperChars[IndexOf(LowerChars, c)] : c \in set \cap Lowers}

FoldItem(item) ==
    IF item.kind = "class" THEN [item EXCEPT !.set = CaseFold(item.set)] ELSE item

\* Regex::new(&format!("(?i){}", rule.pattern))
CompileInsensitive(pattern) ==
    [a \in DOMAIN pattern |->
        [i \in DOMAIN pattern[a] |-> FoldItem(pattern[a][i])]]

RECURSIVE RunLength(_, _, _, _)
\* How many characters from position pos on are in set, at most max of them.
RunLength(text, pos, set, max) ==
    IF max = 0 \/ pos >= Len(text) \/ text[pos + 1] \notin set THEN 0
    ELSE 1 + RunLength(text, pos + 1, set, IF max < 0 THEN max ELSE max - 1)

\* Of the tries <<n, end>>, the end of the one with the most characters n
\* among those that matched (end # -1), or -1.
LongestTry(tries) ==
    IF \A t \in tries : t[2] = -1 THEN -1
    ELSE (CHOOSE t \in tries :
             t[2] # -1 /\ \A u \in tries : u[2] # -1 => u[1] <= t[1])[2]

RECURSIVE MatchItems(_, _, _, _)
\* The end of the match of items[i..] at pos, or -1.  A repetition takes the
\* most characters with which the rest still matches.
MatchItems(text, items, i, pos) ==
    IF i > Len(items) THEN pos
    ELSE IF items[i].kind = "wb"
         THEN IF IsWordBoundary(text, pos)
              THEN MatchItems(text, items, i + 1, pos) ELSE -1
    ELSE (CHOOSE y \in {(CHOOSE y \in {LongestTry(tries) : tries \in {{<<n, MatchItems(text, items, i + 1, pos + n)>> :
                          n \in items[i].min .. run}}} : TRUE) : run \in {RunLength(text, pos, items[i].set, items[i].max)}} : TRUE)

RECURSIVE MatchAlternatives(_, _, _, _)
\* The end of the match that starts at pos: that of the first of the
\* alternatives re[a..] that matches, or -1.
MatchAlternatives(text, re, a, pos) ==
    IF a > Len(re) THEN -1
    ELSE (CHOOSE y \in {IF e # -1 THEN e
                         ELSE MatchAlternatives(text, re, a + 1, pos) : e \in {MatchItems(text, re[a], 1, pos)}} : TRUE)

MatchAt(text, re, pos) == MatchAlternatives(text, re, 1, pos)

RECURSIVE FindAt(_, _, _)
\* Regex::find_at: the leftmost match that starts at start or later, as
\* <<s, e>>, or <<>>.  Assertions see the text before start.
FindAt(text, re, start) ==
    IF start > Len(text) THEN <<>>
    ELSE (CHOOSE y \in {IF e # -1 THEN <<start, e>>
                         ELSE FindAt(text, re, start + 1) : e \in {MatchAt(text, re, start)}} : TRUE)

RECURSIVE MatchesFrom(_, _, _, _)
\* The iterator behind replace_all: successive non-overlapping matches; an
\* empty match right at the end of the previous match is skipped.
MatchesFrom(text, re, last_end, last_match) ==
    IF last_end > Len(text) THEN <<>>
    ELSE (CHOOSE y \in {IF m = <<>> THEN <<>>
                 ELSE IF m[1] = m[2]
                      THEN IF m[2] = last_match
                           THEN MatchesFrom(text, re, m[2] + 1, last_match)
                           ELSE <<m>> \o MatchesFrom(text, re, m[2] + 1, m[2])
                 ELSE <<m>> \o MatchesFrom(text, re, m[2], m[2]) : m \in {FindAt(text, re, last_end)}} : TRUE)

\* Only the first match is replaced.
FindAll_OnlyTheFirst(text, re) ==
    (CHOOSE y \in {IF m = <<>> THEN <<>> ELSE <<m>> : m \in {FindAt(text, re, 0)}} : TRUE)

\* All the matches replace_all replaces, as character positions <<s, e>>.
FindAll(text, re) == MatchesFrom(text, re, 0, -1)

-----------------------------------------------------------------------------
(* The engine: PhantomTracer.  An Option is <<>> (None) or <<x>> (Some(x)).*)
(* A u64 counter is held as an integer, and a counter that wrapped below   *)
(* zero as the negative integer v that stands for 2^64 + v.                *)

None == <<>>
Some(x) == <<x>>

Severities == <<"Critical", "High", "Medium", "Low">>

\* The a_priority / b_priority of the sort in trace_and_phantom.
SeverityPriority(severity) == IndexOf(Severities, severity) - 1

\* One CompiledTraceRule of PhantomTracer::new; no rule carries
\* case_sensitive, so every pattern is compiled with (?i).
CompileRule(rule) ==
    [name |-> rule.name, regex |-> CompileInsensitive(rule.pattern),
     method |-> rule.method, preserve_chars |-> rule.preserve_chars,
     replacement |-> rule.replacement, severity |-> rule.severity]

CompileRules(rules) == [i \in DOMAIN rules |-> CompileRule(rules[i])]

\* TraceStats { severity_level: format!("{:?}", severity), ..Default::default() }
DefaultStats(severity_level) ==
    [phantoms_created |-> 0, characters_traced |-> 0,
     severity_level |-> severity_level, first_trace |-> None, last_trace |-> None]

\* The trace_stats map PhantomTracer::new builds: insert by name, in rule
\* order, so among rules of one name the last one's severity stays.
InitialStats(rules) ==
    [n \in {rules[i].name : i \in DOMAIN rules} |->
        DefaultStats(rules[Max({i \in DOMAIN rules : rules[i].name = n})].severity)]

\* No sort: the rules are applied in the order of their definition.
SortedRules_DefinitionOrder(compiled) == compiled

\* sorted_rules: sort_by is stable, so rules of one severity keep their order.
SortedRules(compiled) ==
    LET OfPriority(p) == SelectSeq(compiled, LAMBDA r : SeverityPriority(r.severity) = p)
    IN  OfPriority(0) \o OfPriority(1) \o OfPriority(2) \o OfPriority(3)

\* phantom_string.  len is in bytes; a slice that does not fall on a character
\* boundary panics.
phantom_string(input, preserve) ==
    (CHOOSE y \in {IF len <= preserve * 2
            THEN [panic |-> FALSE, out |-> Repeat(Block, len)]
            ELSE IF ~IsCharBoundary(input, preserve)
                      \/ ~IsCharBoundary(input, len - preserve)
            THEN [panic |-> TRUE, out |-> <<>>]
            ELSE [panic |-> FALSE,
                  out |-> Slice(input, 0, CharPos(input, preserve))
                            \o Repeat(Block, len - preserve * 2)
                            \o Slice(input, CharPos(input, len - preserve), Len(input))] : len \in {ByteLen(input)}} : TRUE)

\* A Tokenize arm that never looks the value up: every occurrence gets a new
\* token, numbered by the size of the table.
Tokenize_AlwaysMints(tokens, value) ==
    (CHOOSE y \in {[out |-> token,
                    tokens |-> [k \in DOMAIN tokens \cup {token} |->
                                  IF k = token THEN token ELSE tokens[k]]] : token \in {Str_PHANTOM_ \o Str_TOKEN_
                                     \o HexN(Cardinality(DOMAIN tokens), 8)}} : TRUE)

\* The Tokenize arm of apply_obfuscation: the stored token of the key, or a
\* newly minted one, which is stored.
Tokenize(tokens, value) ==
    (CHOOSE y \in {IF token_key \in DOMAIN tokens
            THEN [out |-> tokens[token_key], tokens |-> tokens]
            ELSE (CHOOSE y \in {[out |-> token,
                          tokens |-> [k \in DOMAIN tokens \cup {token_key} |->
                                        IF k = token_key THEN token ELSE tokens[k]]] : token \in {MintToken(value)}} : TRUE) : token_key \in {TokenKey(value)}} : TRUE)

\* An apply_obfuscation whose Vanish arm falls through to the default mask.
apply_obfuscation_VanishMasks(tokens, value, method, preserve_chars, replacement) ==
    CASE method = "Phantom" ->
           (CHOOSE y \in {[panic |-> r.panic, out |-> r.out, tokens |-> tokens] : r \in {phantom_string(value,
                    IF preserve_chars = None THEN 0 ELSE preserve_chars[1])}} : TRUE)
      [] method = "Mirror" ->
           [panic |-> FALSE, out |-> MirrorToken(value), tokens |-> tokens]
      [] method \in {"Mask", "Vanish"} ->
           [panic |-> FALSE,
            out |-> IF replacement = None THEN DefaultMask ELSE replacement[1],
            tokens |-> tokens]
      [] method = "Tokenize" ->
           (CHOOSE y \in {[panic |-> FALSE, out |-> r.out, tokens |-> r.tokens] : r \in {Tokenize(tokens, value)}} : TRUE)

\* apply_obfuscation: [panic, out, tokens].
apply_obfuscation(tokens, value, method, preserve_chars, replacement) ==
    CASE method = "Phantom" ->
           (CHOOSE y \in {[panic |-> r.panic, out |-> r.out, tokens |-> tokens] : r \in {phantom_string(value,
                    IF preserve_chars = None THEN 0 ELSE preserve_chars[1])}} : TRUE)
      [] method = "Mirror" ->
           [panic |-> FALSE, out |-> MirrorToken(value), tokens |-> tokens]
      [] method = "Mask" ->
           [panic |-> FALSE,
            out |-> IF replacement = None THEN DefaultMask ELSE replacement[1],
            tokens |-> tokens]
      [] method = "Vanish" ->
           [panic |-> FALSE, out |-> <<>>, tokens |-> tokens]
      [] method = "Tokenize" ->
           (CHOOSE y \in {[panic |-> FALSE, out |-> r.out, tokens |-> r.tokens] : r \in {Tokenize(tokens, value)}} : TRUE)

\* lib.rs simple_hash: the loop of phantom_hash, written out a second time.
simple_hash(input) == HashBytes(FnvOffset, Bytes(input))

\* lib.rs phantom_value, which needs no engine: [panic, out].
phantom_value(value, method) ==
    CASE method = "Phantom" ->
           (CHOOSE y \in {IF len <= 4
                   THEN [panic |-> FALSE, out |-> Repeat(Block, len)]
                   ELSE IF ~IsCharBoundary(value, 2) \/ ~IsCharBoundary(value, len - 2)
                   THEN [panic |-> TRUE, out |-> <<>>]
                   ELSE [panic |-> FALSE,
                         out |-> Slice(value, 0, CharPos(value, 2)) \o Repeat(Block, 5)
                                   \o Slice(value, CharPos(value, len - 2), Len(value))] : len \in {ByteLen(value)}} : TRUE)
      [] method = "Mirror" ->
           [panic |-> FALSE, out |-> Str_PHANTOM_ \o Hex08(simple_hash(value))]
      [] method = "Mask" -> [panic |-> FALSE, out |-> DefaultMask]
      [] method = "Vanish" -> [panic |-> FALSE, out |-> <<>>]
      [] method = "Tokenize" ->
           [panic |-> FALSE, out |-> Str_PHANTOM_ \o Str_TOKEN_ \o Hex08(simple_hash(value))]

\* An event whose position counts characters, not bytes.
PhantomEvent_CharacterOffsets(rule, text, m, phantomed, nanos) ==
    [rule_name |-> rule.name, severity |-> rule.severity,
     original_value |-> Slice(text, m[1], m[2]), phantom_value |-> phantomed,
     position |-> <<m[1], m[2]>>,
     trace_id |-> generate_trace_id(nanos)]

\* One PhantomEvent; position is in bytes of the text the pass started with.
PhantomEvent(rule, text, m, phantomed, nanos) ==
    [rule_name |-> rule.name, severity |-> rule.severity,
     original_value |-> Slice(text, m[1], m[2]), phantom_value |-> phantomed,
     position |-> <<ByteOffset(text, m[1]), ByteOffset(text, m[2])>>,
     trace_id |-> generate_trace_id(nanos)]

RECURSIVE ReplaceMatches(_, _, _, _, _, _, _)
\* The loop of replace_all over the matches ms[i..] of text: acc carries the
\* output built so far (out), the events, the token table and the clock;
\* last is the end of the previous match.  Every clock read advances the
\* clock by tick.
ReplaceMatches(text, rule, ms, i, acc, tick, last) ==
    IF i > Len(ms)
    THEN [acc EXCEPT !.out = acc.out \o Slice(text, last, Len(text))]
    ELSE (CHOOSE y \in {IF r.panic
                 THEN [acc EXCEPT !.panic = TRUE, !.tokens = r.tokens]
                 ELSE (CHOOSE y \in {ReplaceMatches(text, rule, ms, i + 1, next, tick, ms[i][2]) : next \in {[panic |-> FALSE,
                            out |-> acc.out \o Slice(text, last, ms[i][1]) \o r.out,
                            events |-> Append(acc.events,
                                          PhantomEvent(rule, text, ms[i], r.out, acc.clock)),
                            tokens |-> r.tokens,
                            clock |-> acc.clock + tick]}} : TRUE) : r \in {apply_obfuscation(acc.tokens, Slice(text, ms[i][1], ms[i][2]),
                  rule.method, rule.preserve_chars, rule.replacement)}} : TRUE)

\* rule.regex.replace_all(&result, |caps| ...) with the closure of
\* trace_and_phantom.
replace_all(rule, text, events, tokens, clock, tick) ==
    (CHOOSE y \in {ReplaceMatches(text, rule, ms, 1,
                [panic |-> FALSE, out |-> <<>>, events |-> events,
                 tokens |-> tokens, clock |-> clock], tick, 0) : ms \in {FindAll(text, rule.regex)}} : TRUE)

\* A statistics update that sets first_trace every time.
UpdateStats_MovesFirstTrace(stats, name, before, after, now, overflow_checks) ==
    LET delta == ByteLen(before) - ByteLen(after)
        old == stats[name]
    IN  IF delta < 0 /\ overflow_checks
        THEN [panic |-> TRUE,
              stats |-> [stats EXCEPT ![name].phantoms_created = old.phantoms_created + 1]]
        ELSE [panic |-> FALSE,
              stats |-> [stats EXCEPT ![name] =
                  [phantoms_created |-> old.phantoms_created + 1,
                   characters_traced |-> old.characters_traced + delta,
                   severity_level |-> old.severity_level,
                   first_trace |-> Some(now),
                   last_trace |-> Some(now)]]]

\* The statistics update after a pass that changed the text.  With overflow
\* checks (a debug build) the subtraction of a longer result panics, after
\* phantoms_created was incremented; without them it wraps, and so does the
\* addition.
UpdateStats(stats, name, before, after, now, overflow_checks) ==
    LET delta == ByteLen(before) - ByteLen(after)
        old == stats[name]
    IN  IF delta < 0 /\ overflow_checks
        THEN [panic |-> TRUE,
              stats |-> [stats EXCEPT ![name].phantoms_created = old.phantoms_created + 1]]
        ELSE [panic |-> FALSE,
              stats |-> [stats EXCEPT ![name] =
                  [phantoms_created |-> old.phantoms_created + 1,
                   characters_traced |-> old.characters_traced + delta,
                   severity_level |-> old.severity_level,
                   first_trace |-> IF old.first_trace = None THEN Some(now)
                                   ELSE old.first_trace,
                   last_trace |-> Some(now)]]]

\* A loop iteration that updates the statistics after every pass, changed
\* text or not.
RunRule_CountsEveryPass(rule, st, tick, overflow_checks) ==
    (CHOOSE y \in {IF pass.panic
            THEN [st EXCEPT !.panic = TRUE, !.events = pass.events,
                            !.tokens = pass.tokens, !.clock = pass.clock]
            ELSE (CHOOSE y \in {[panic |-> u.panic, text |-> pass.out,
                          events |-> pass.events, stats |-> u.stats,
                          tokens |-> pass.tokens,
                          clock |-> IF u.panic THEN pass.clock ELSE pass.clock + tick] : u \in {UpdateStats(st.stats, rule.name, st.text, pass.out,
                                  pass.clock, overflow_checks)}} : TRUE) : pass \in {replace_all(rule, st.text, st.events, st.tokens, st.clock, tick)}} : TRUE)

\* A loop iteration that does not assign the output of its pass to result.
RunRule_DropsResult(rule, st, tick, overflow_checks) ==
    (CHOOSE y \in {IF pass.panic
            THEN [st EXCEPT !.panic = TRUE, !.events = pass.events,
                            !.tokens = pass.tokens, !.clock = pass.clock]
            ELSE IF pass.out = st.text
            THEN [st EXCEPT !.events = pass.events, !.tokens = pass.tokens,
                            !.clock = pass.clock]
            ELSE (CHOOSE y \in {[panic |-> u.panic, text |-> st.text,
                          events |-> pass.events, stats |-> u.stats,
                          tokens |-> pass.tokens,
                          clock |-> IF u.panic THEN pass.clock ELSE pass.clock + tick] : u \in {UpdateStats(st.stats, rule.name, st.text, pass.out,
                                  pass.clock, overflow_checks)}} : TRUE) : pass \in {replace_all(rule, st.text, st.events, st.tokens, st.clock, tick)}} : TRUE)

\* One pass that adds to phantoms_created the number of matches it replaced.
RunRule_CountsEveryMatch(rule, st, tick, overflow_checks) ==
    (CHOOSE y \in {IF pass.panic
            THEN [st EXCEPT !.panic = TRUE, !.events = pass.events,
                            !.tokens = pass.tokens, !.clock = pass.clock]
            ELSE IF pass.out = st.text
            THEN [st EXCEPT !.events = pass.events, !.tokens = pass.tokens,
                            !.clock = pass.clock]
            ELSE (CHOOSE y \in {[panic |-> u.panic, text |-> pass.out,
                          events |-> pass.events,
                          stats |-> [u.stats EXCEPT ![rule.name].phantoms_created =
                                        st.stats[rule.name].phantoms_created
                                           + Len(pass.events) - Len(st.events)],
                          tokens |-> pass.tokens,
                          clock |-> IF u.panic THEN pass.clock ELSE pass.clock + tick] : u \in {UpdateStats(st.stats, rule.name, st.text, pass.out,
                                  pass.clock, overflow_checks)}} : TRUE) : pass \in {replace_all(rule, st.text, st.events, st.tokens, st.clock, tick)}} : TRUE)

\* One iteration of the loop over sorted_rules: the pass of rule over st.text
\* and the statistics update.  st is [panic, text, events, stats, tokens, clock].
RunRule(rule, st, tick, overflow_checks) ==
    (CHOOSE y \in {IF pass.panic
            THEN [st EXCEPT !.panic = TRUE, !.events = pass.events,
                            !.tokens = pass.tokens, !.clock = pass.clock]
            ELSE IF pass.out = st.text
            THEN [st EXCEPT !.events = pass.events, !.tokens = pass.tokens,
                            !.clock = pass.clock]
            ELSE (CHOOSE y \in {[panic |-> u.panic, text |-> pass.out,
                          events |-> pass.events, stats |-> u.stats,
                          tokens |-> pass.tokens,
                          clock |-> IF u.panic THEN pass.clock ELSE pass.clock + tick] : u \in {UpdateStats(st.stats, rule.name, st.text, pass.out,
                                  pass.clock, overflow_checks)}} : TRUE) : pass \in {replace_all(rule, st.text, st.events, st.tokens, st.clock, tick)}} : TRUE)

RECURSIVE RunRules(_, _, _, _, _)
\* The loop over sorted_rules from rule i on.
RunRules(sorted, i, st, tick, overflow_checks) ==
    IF i > Len(sorted) \/ st.panic THEN st
    ELSE (CHOOSE y \in {RunRules(sorted, i + 1, next, tick, overflow_checks) : next \in {RunRule(sorted[i], st, tick, overflow_checks)}} : TRUE)

\* PhantomTracer::trace_and_phantom on an engine [compiled_rules, trace_stats,
\* phantom_tokens]: [panic, text, events, stats, tokens, clock].
trace_and_phantom(compiled, stats, tokens, text, clock, tick, overflow_checks) ==
    (CHOOSE y \in {RunRules(sorted, 1,
                [panic |-> FALSE, text |-> text, events |-> <<>>, stats |-> stats,
                 tokens |-> tokens, clock |-> clock],
                tick, overflow_checks) : sorted \in {SortedRules(compiled)}} : TRUE)

RECURSIVE SumOver(_, _, _)
\* The sum of stats[n][field] over the names n of S.
SumOver(stats, S, field) ==
    IF S = {} THEN 0
    ELSE (CHOOSE y \in {(CHOOSE y \in {stats[n][field] + SumOver(stats, rest, field) : rest \in {S \ {n}}} : TRUE) : n \in {CHOOSE x \in S : TRUE}} : TRUE)

\* PhantomTracer::get_trace_report.  The totals are u64 sums: a negative number v
\* stands for the u64 value 2^64 + v, and a sum is taken modulo 2^64.
get_trace_report(stats, now) ==
    [total_phantoms_created |-> SumOver(stats, DOMAIN stats, "phantoms_created"),
     total_characters_traced |-> SumOver(stats, DOMAIN stats, "characters_traced"),
     rules_triggered |-> Cardinality({n \in DOMAIN stats : stats[n].phantoms_created > 0}),
     severity_breakdown |->
        [l \in {stats[n].severity_level : n \in DOMAIN stats} |->
            SumOver(stats, {n \in DOMAIN stats : stats[n].severity_level = l},
                    "phantoms_created")],
     detailed_stats |-> stats,
     generation_time |-> now]

\* A reset that assigns TraceStats::default() to every entry, which loses the
\* severity label.
reset_traces_LosesLabel(stats) ==
    [n \in DOMAIN stats |-> DefaultStats("")]

\* PhantomTracer::reset_traces: the statistics it leaves (the token table is
\* cleared by the action).
reset_traces(stats) ==
    [n \in DOMAIN stats |-> DefaultStats(stats[n].severity_level)]

-----------------------------------------------------------------------------
(* The pipeline: PhantomTraceProcessor.                                    *)

RECURSIVE SplitInclusive(_, _)
\* str::split_inclusive('\n'): the pieces of text, each ending with its
\* newline, the last one possibly without; cur is the piece being read.
SplitInclusive(text, cur) ==
    IF text = <<>> THEN (IF cur = <<>> THEN <<>> ELSE <<cur>>)
    ELSE IF Head(text) = "\n"
         THEN <<Append(cur, "\n")>> \o SplitInclusive(Tail(text), <<>>)
         ELSE SplitInclusive(Tail(text), Append(cur, Head(text)))

\* The closure of str::lines: a piece loses its final "\n", and then a final
\* "\r"; a last piece without "\n" is left as it is.
StripLineEnding(piece) ==
    IF piece # <<>> /\ piece[Len(piece)] = "\n"
    THEN LET line == SubSeq(piece, 1, Len(piece) - 1)
         IN  IF line # <<>> /\ line[Len(line)] = "\r"
             THEN SubSeq(line, 1, Len(line) - 1) ELSE line
    ELSE piece

\* input.lines().collect()
Lines(input) ==
    (CHOOSE y \in {[i \in DOMAIN pieces |-> StripLineEnding(pieces[i])] : pieces \in {SplitInclusive(input, <<>>)}} : TRUE)

RECURSIVE Join(_, _)
\* phantomed_lines.join("\n")
Join(lines, sep) ==
    IF lines = <<>> THEN <<>>
    ELSE IF Len(lines) = 1 THEN lines[1]
    ELSE lines[1] \o sep \o Join(Tail(lines), sep)

\* ProcessingStats::default()
DefaultProcessingStats ==
    [lines_processed |-> 0, lines_phantomed |-> 0, total_phantom_events |-> 0,
     processing_time |-> 0, start_time |-> None]

\* A loop iteration that counts every line as phantomed.
ProcessLine_CountsEveryLine(compiled, line, st, tick, overflow_checks) ==
    (CHOOSE y \in {[panic |-> r.panic,
             phantomed_lines |-> IF r.panic THEN st.phantomed_lines
                                 ELSE Append(st.phantomed_lines, r.text),
             all_events |-> IF r.panic \/ r.events = <<>> THEN st.all_events
                            ELSE st.all_events \o r.events,
             lines_phantomed |-> IF r.panic THEN st.lines_phantomed
                                 ELSE st.lines_phantomed + 1,
             stats |-> r.stats, tokens |-> r.tokens, clock |-> r.clock] : r \in {trace_and_phantom(compiled, st.stats, st.tokens, line, st.clock, tick,
                           overflow_checks)}} : TRUE)

\* One iteration of the for loop of phantom_text.  st is [panic,
\* phantomed_lines, all_events, lines_phantomed, stats, tokens, clock].
ProcessLine(compiled, line, st, tick, overflow_checks) ==
    (CHOOSE y \in {[panic |-> r.panic,
             phantomed_lines |-> IF r.panic THEN st.phantomed_lines
                                 ELSE Append(st.phantomed_lines, r.text),
             all_events |-> IF r.panic \/ r.events = <<>> THEN st.all_events
                            ELSE st.all_events \o r.events,
             lines_phantomed |-> IF r.panic \/ r.events = <<>>
                                 THEN st.lines_phantomed
                                 ELSE st.lines_phantomed + 1,
             stats |-> r.stats, tokens |-> r.tokens, clock |-> r.clock] : r \in {trace_and_phantom(compiled, st.stats, st.tokens, line, st.clock, tick,
                           overflow_checks)}} : TRUE)

RECURSIVE ProcessLines(_, _, _, _, _, _)
\* The for loop of phantom_text from line i on.
ProcessLines(compiled, lines, i, st, tick, overflow_checks) ==
    IF i > Len(lines) \/ st.panic THEN st
    ELSE (CHOOSE y \in {ProcessLines(compiled, lines, i + 1, next, tick, overflow_checks) : next \in {ProcessLine(compiled, lines[i], st, tick, overflow_checks)}} : TRUE)

\* A phantom_text that assigns the counters of the call instead of adding them.
FinishPhantomText_Overwrites(st, started, start_time, tick) ==
    IF st.panic
    THEN [panic |-> TRUE, result |-> <<>>, processing_stats |-> started,
          stats |-> st.stats, tokens |-> st.tokens, clock |-> st.clock]
    ELSE [panic |-> FALSE,
          result |-> [phantomed_text |-> Join(st.phantomed_lines, <<"\n">>),
                      phantom_events |-> st.all_events,
                      lines_processed |-> Len(st.phantomed_lines),
                      lines_phantomed |-> st.lines_phantomed,
                      processing_time |-> st.clock - start_time],
          processing_stats |->
              [lines_processed |-> Len(st.phantomed_lines),
               lines_phantomed |-> st.lines_phantomed,
               total_phantom_events |-> Len(st.all_events),
               processing_time |-> started.processing_time + (st.clock - start_time),
               start_time |-> started.start_time],
          stats |-> st.stats, tokens |-> st.tokens, clock |-> st.clock + tick]

\* An end of phantom_text that adds the lines with events, not the events,
\* to total_phantom_events.
FinishPhantomText_CountsLines(st, started, start_time, tick) ==
    IF st.panic
    THEN [panic |-> TRUE, result |-> <<>>, processing_stats |-> started,
          stats |-> st.stats, tokens |-> st.tokens, clock |-> st.clock]
    ELSE [panic |-> FALSE,
          result |-> [phantomed_text |-> Join(st.phantomed_lines, <<"\n">>),
                      phantom_events |-> st.all_events,
                      lines_processed |-> Len(st.phantomed_lines),
                      lines_phantomed |-> st.lines_phantomed,
                      processing_time |-> st.clock - start_time],
          processing_stats |->
              [lines_processed |-> started.lines_processed + Len(st.phantomed_lines),
               lines_phantomed |-> started.lines_phantomed + st.lines_phantomed,
               total_phantom_events |-> started.total_phantom_events + st.lines_phantomed,
               processing_time |-> started.processing_time + (st.clock - start_time),
               start_time |-> started.start_time],
          stats |-> st.stats, tokens |-> st.tokens, clock |-> st.clock + tick]

\* What phantom_text returns and leaves, given the state st its loop ended in,
\* the statistics with start_time set (started) and the clock at the start.
FinishPhantomText(st, started, start_time, tick) ==
    IF st.panic
    THEN [panic |-> TRUE, result |-> <<>>, processing_stats |-> started,
          stats |-> st.stats, tokens |-> st.tokens, clock |-> st.clock]
    ELSE [panic |-> FALSE,
          result |-> [phantomed_text |-> Join(st.phantomed_lines, <<"\n">>),
                      phantom_events |-> st.all_events,
                      lines_processed |-> Len(st.phantomed_lines),
                      lines_phantomed |-> st.lines_phantomed,
                      processing_time |-> st.clock - start_time],
          processing_stats |->
              [lines_processed |-> started.lines_processed + Len(st.phantomed_lines),
               lines_phantomed |-> started.lines_phantomed + st.lines_phantomed,
               total_phantom_events |-> started.total_phantom_events + Len(st.all_events),
               processing_time |-> started.processing_time + (st.clock - start_time),
               start_time |-> started.start_time],
          stats |-> st.stats, tokens |-> st.tokens, clock |-> st.clock + tick]

\* PhantomTraceProcessor::phantom_text: [panic, result, processing_stats,
\* stats, tokens, clock]; result is the ProcessingResult.
phantom_text(compiled, pstats, stats, tokens, input, clock, tick, overflow_checks) ==
    (CHOOSE y \in {(CHOOSE y \in {FinishPhantomText(st,
                        [pstats EXCEPT !.start_time =
                            IF pstats.start_time = None THEN Some(clock)
                            ELSE pstats.start_time],
                        clock, tick) : st \in {ProcessLines(compiled, lines, 1,
                     [panic |-> FALSE, phantomed_lines |-> <<>>, all_events |-> <<>>,
                      lines_phantomed |-> 0, stats |-> stats, tokens |-> tokens,
                      clock |-> clock + tick],
                     tick, overflow_checks)}} : TRUE) : lines \in {Lines(input)}} : TRUE)

-----------------------------------------------------------------------------
(* Rule definitions.                                                       *)

TraceRule(name, pattern, method, preserve_chars, replacement, severity) ==
    [name |-> name, pattern |-> pattern, method |-> method,
     preserve_chars |-> preserve_chars, replacement |-> replacement,
     severity |-> severity]

Whitespace == {" ", "\t", "\n", "\r"}                               \* \s
WordChars == Digits \cup Uppers \cup Lowers \cup {"_", EAcute}      \* \w
AllChars == WordChars \cup DOMAIN PunctCode \cup {Block}
D(min, max) == Class(Digits, min, max)                              \* \d{min,max}, [0-9]{min,max}
OptSep(set) == Class(set, 0, 1)
Word(w) == [i \in DOMAIN w |-> Lit(w[i])]

CardSep == {"-"} \cup Whitespace          \* [-\s]
PhoneSep == {"-", "."} \cup Whitespace    \* [-.\s]
KeySep == {":", "="} \cup Whitespace      \* [:\s=]

\* \b(?:\d{4}[-\s]?){3}\d{4}\b
CreditCardPattern ==
    << <<WordBoundary, D(4, 4), OptSep(CardSep), D(4, 4), OptSep(CardSep),
         D(4, 4), OptSep(CardSep), D(4, 4), WordBoundary>> >>

\* \b\d{3}-\d{2}-\d{4}\b
SsnPattern ==
    << <<WordBoundary, D(3, 3), Lit("-"), D(2, 2), Lit("-"), D(4, 4), WordBoundary>> >>

\* \b[A-Za-z0-9._%+-]+@[A-Za-z0-9.-]+\.[A-Z|a-z]{2,}\b
EmailPattern ==
    << <<WordBoundary,
         Class(Uppers \cup Lowers \cup Digits \cup {".", "_", "%", "+", "-"}, 1, -1),
         Lit("@"),
         Class(Uppers \cup Lowers \cup Digits \cup {".", "-"}, 1, -1),
         Lit("."),
         Class(Uppers \cup Lowers \cup {"|"}, 2, -1),
         WordBoundary>> >>

\* \b(?:\+1[-.\s]?)?(?:\([0-9]{3}\)|[0-9]{3})[-.\s]?[0-9]{3}[-.\s]?[0-9]{4}\b
\* The optional group and the alternation, in the order the matcher tries them.
PhonePattern ==
    LET prefix == <<Lit("+"), Lit("1"), OptSep(PhoneSep)>>
        paren == <<Lit("("), D(3, 3), Lit(")")>>
        bare == <<D(3, 3)>>
        rest == <<OptSep(PhoneSep), D(3, 3), OptSep(PhoneSep), D(4, 4), WordBoundary>>
    IN  << <<WordBoundary>> \o prefix \o paren \o rest,
           <<WordBoundary>> \o prefix \o bare \o rest,
           <<WordBoundary>> \o paren \o rest,
           <<WordBoundary>> \o bare \o rest >>

\* \b(?:[0-9]{1,3}\.){3}[0-9]{1,3}\b
IpPattern ==
    << <<WordBoundary, D(1, 3), Lit("."), D(1, 3), Lit("."), D(1, 3), Lit("."),
         D(1, 3), WordBoundary>> >>

\* \b[Aa][Pp][Ii][_-]?[Kk][Ee][Yy][:\s=]+[\w\-]{20,}\b
ApiKeyPattern ==
    << <<WordBoundary>> \o Word(<<"a", "p", "i">>) \o <<OptSep({"_", "-"})>>
         \o Word(<<"k", "e", "y">>)
         \o <<Class(KeySep, 1, -1), Class(WordChars \cup {"-"}, 20, -1), WordBoundary>> >>

\* \bAKIA[0-9A-Z]{16}\b
AwsKeyPattern ==
    << <<WordBoundary>> \o Word(<<"A", "K", "I", "A">>)
         \o <<Class(Digits \cup Uppers, 16, 16), WordBoundary>> >>

\* \b[Pp][Aa][Ss][Ss][Ww][Oo][Rr][Dd][:\s=]+\S+
PasswordPattern ==
    << <<WordBoundary>> \o Word(<<"p", "a", "s", "s", "w", "o", "r", "d">>)
         \o <<Class(KeySep, 1, -1), Class(AllChars \ Whitespace, 1, -1)>> >>

Str_IpMask == <<"X", "X", "X", ".", "X", "X", "X", ".", "X", "X", "X", ".", "X", "X", "X">>
Str_Phantomed == <<"_", "P", "H", "A", "N", "T", "O", "M", "E", "D", "]">>
Str_ApiKeyMask == <<"[", "A", "P", "I", "_", "K", "E", "Y">> \o Str_Phantomed
Str_AwsKeyMask == <<"[", "A", "W", "S", "_", "K", "E", "Y">> \o Str_Phantomed
Str_PasswordMask == <<"[", "P", "A", "S", "S", "W", "O", "R", "D">> \o Str_Phantomed

\* default_trace_rules
default_trace_rules ==
    << TraceRule("credit_card", CreditCardPattern, "Phantom", Some(4), None, "Critical"),
       TraceRule("ssn", SsnPattern, "Mirror", None, None, "High"),
       TraceRule("email", EmailPattern, "Phantom", Some(3), None, "High"),
       TraceRule("phone", PhonePattern, "Phantom", Some(4), None, "Medium"),
       TraceRule("ip_address", IpPattern, "Mask", None, Some(Str_IpMask), "Medium"),
       TraceRule("api_key", ApiKeyPattern, "Mask", None, Some(Str_ApiKeyMask), "Critical"),
       TraceRule("aws_access_key", AwsKeyPattern, "Mask", None, Some(Str_AwsKeyMask), "Critical"),
       TraceRule("password", PasswordPattern, "Mask", None, Some(Str_PasswordMask), "Critical") >>

-----------------------------------------------------------------------------
(* Sessions.  A session is one engine (PhantomTracer::new) or one pipeline *)
(* (PhantomTraceProcessor::new) built from a rule list, in a debug build   *)
(* (overflow checks) or a release build (wrapping arithmetic), and the     *)
(* texts its caller passes in.                                             *)

\* [a-z U+00E9]+ (letters), \d+ and the literal ab
LettersPattern == << <<Class(Lowers \cup {EAcute}, 1, -1)>> >>
DigitsPattern == << <<D(1, -1)>> >>
AbPattern == << Word(<<"a", "b">>) >>
XPattern == << Word(<<"x">>) >>
SevenPattern == << Word(<<"7">>) >>

VanishRules ==
    << TraceRule("junk", XPattern, "Mask", None, None, "Low"),
       TraceRule("ab", AbPattern, "Vanish", None, None, "Medium") >>

TokenizeRules ==
    << TraceRule("id", DigitsPattern, "Tokenize", None, None, "High") >>

PhantomRules ==
    << TraceRule("word", LettersPattern, "Phantom", Some(1), None, "Medium") >>

OverlapRules ==
    << TraceRule("digits", DigitsPattern, "Phantom", None, None, "Low"),
       TraceRule("ab", AbPattern, "Mirror", None, None, "Critical"),
       TraceRule("seven", SevenPattern, "Mask", None, None, "High") >>

\* A Mask rule whose replacement is what its pattern matches.
EchoRules ==
    << TraceRule("echo", XPattern, "Mask", None, Some(<<"x">>), "Low") >>

T_ssn == <<"S", "S", "N", ":", " ", "1", "2", "3", "-", "4", "5", "-", "6", "7", "8", "9">>
T_ssn_glued == <<"x", "1", "2", "3", "-", "4", "5", "-", "6", "7", "8", "9">>
T_ip_ssn == <<"1", ".", "1", ".", "1", ".", "1", " ",
              "1", "2", "3", "-", "4", "5", "-", "6", "7", "8", "9">>
T_card_email == <<"4", "1", "1", "1", "-", "1", "1", "1", "1", "-", "1", "1", "1", "1", "-",
                  "1", "1", "1", "1", " ", "a", "@", "b", ".", "c", "o", "m">>
T_ok == <<"o", "k">>
T_five == <<"a", "\n", "b", "\n", "c", "\n", "d", "\n", "e">>
T_three == <<"a", "\n", "b", "\n", "c">>

Scenarios ==
    << [rules |-> default_trace_rules,
        lines |-> {T_ssn, T_ssn_glued, T_ip_ssn, T_card_email, T_ok},
        docs |-> {T_ssn, T_ok \o <<"\n">> \o T_ssn, T_ok \o <<"\n">>}],
       [rules |-> <<>>,
        lines |-> {<<>>, <<"a">>, <<EAcute>>},
        docs |-> {<<>>, <<"a", "\n">>, <<"a", "\r", "\n", "b">>, <<"\n">>,
                  <<"a", "\r">>, T_five, T_three}],
       [rules |-> VanishRules,
        lines |-> {<<"a", "a", "b", "b">>, <<"a", "b", "A", "B">>, <<"b", "a">>,
                   <<"x", "a", "b">>},
        docs |-> {<<"a", "b", "\n", "b", "a", "\n", "a", "b", "a", "b">>,
                  <<"b", "a", "\n">>, <<"a", "\n", "\n", "b">>, T_five, T_three}],
       [rules |-> TokenizeRules,
        lines |-> {<<"1", " ", "1">>, <<"1">>, <<"2", " ", "1">>, <<"a">>},
        docs |-> {<<"1", "\n", "2", "\n", "1">>, <<"a", "\n", "1">>}],
       [rules |-> PhantomRules,
        lines |-> {<<"a", "b">>, <<"a", "b", "c">>, <<"a", EAcute, "b">>,
                   <<EAcute, "a">>, <<"1">>},
        docs |-> {<<"a", "b", "c", "\n", "1">>, <<"1", "\n">>}],
       [rules |-> OverlapRules,
        lines |-> {<<"a", "b">>, <<"a", "b", " ", "1">>, <<"7">>, <<"c">>},
        docs |-> {<<"a", "b", "\n", "7">>, <<"c", "\r", "\n">>}],
       [rules |-> EchoRules,
        lines |-> {<<"x">>, <<"X">>, <<"a", "x">>},
        docs |-> {<<"x", "\n", "X">>}] >>

\* The most operations of one session.
MaxCalls == 3

\* The clock is coarse (two reads in a row return the same value) or fine
\* (every read returns a later value).
ClockSteps == {0, 1}

VARIABLES
    scenario,          \* which rule list and texts this session uses
    api,               \* "tracer": a PhantomTracer; "processor": a PhantomTraceProcessor
    overflow_checks,   \* whether the build checks integer overflow
    compiled_rules,    \* PhantomTracer.compiled_rules
    trace_stats,       \* PhantomTracer.trace_stats
    phantom_tokens,    \* PhantomTracer.phantom_tokens
    processing_stats,  \* PhantomTraceProcessor.processing_stats
    clock,             \* the next value the clock returns
    clock_step,        \* by how much the clock advances from one read to the next
    panicked,          \* a call panicked; the session is over
    last,              \* the last operation: its input and what it returned
    calls,             \* the number of operations so far
    token_log,         \* <<value, token>> of every returned Tokenize event
    session,           \* the sums of the per-call results since construction or reset
    mode,              \* the operation mode main dispatched to ("library": no main)
    shutdown_signal,   \* PhantomTraceApp.shutdown_signal
    main_pc,           \* where the main thread is in its mode's loop
    exited,            \* the panic hook ran std::process::exit(1)
    connections        \* the line sessions served: one per TCP connection, or stdin

vars == <<scenario, api, overflow_checks, compiled_rules, trace_stats,
          phantom_tokens, processing_stats, clock, clock_step, panicked, last,
          calls, token_log, session, mode, shutdown_signal, main_pc, exited,
          connections>>

\* The state of main and its threads.
serverVars == <<mode, shutdown_signal, main_pc, exited, connections>>

\* The library used without main: no mode, no signal handler, no threads.
NoServer ==
    /\ mode = "library"
    /\ shutdown_signal = FALSE
    /\ main_pc = "none"
    /\ exited = FALSE
    /\ connections = <<>>

NoTokens == [k \in {} |-> <<>>]
NoSession == [lines |-> 0, phantomed |-> 0, events |-> 0]

\* What an operation leaves in last: the fields it does not set are empty.
Returned(op, input) ==
    [op |-> op, input |-> input, panic |-> FALSE, text |-> <<>>, events |-> <<>>,
     lines_processed |-> 0, lines_phantomed |-> 0, report |-> <<>>, counters |-> <<>>]

\* The events of a Tokenize rule among events.
TokenizeEvents(events) ==
    {<<events[i].original_value, events[i].phantom_value>> :
        i \in {j \in DOMAIN events :
                 \E k \in DOMAIN compiled_rules :
                    /\ compiled_rules[k].name = events[j].rule_name
                    /\ compiled_rules[k].method = "Tokenize"}}

Init ==
    /\ scenario \in DOMAIN Scenarios
    /\ api \in {"tracer", "processor"}
    /\ overflow_checks \in BOOLEAN
    /\ compiled_rules = CompileRules(Scenarios[scenario].rules)
    /\ trace_stats = InitialStats(Scenarios[scenario].rules)
    /\ phantom_tokens = NoTokens
    /\ processing_stats = DefaultProcessingStats
    /\ clock = 0
    /\ clock_step \in ClockSteps
    /\ panicked = FALSE
    /\ last = Returned("new", <<>>)
    /\ calls = 0
    /\ token_log = {}
    /\ session = NoSession
    /\ NoServer

Ready == ~panicked /\ calls < MaxCalls

\* engine.trace_and_phantom(input)
TraceAndPhantom(input) ==
    /\ Ready /\ api = "tracer"
    /\ \E r \in {trace_and_phantom(compiled_rules, trace_stats, phantom_tokens,
                                    input, clock, clock_step, overflow_checks)} :
           /\ trace_stats' = r.stats
           /\ phantom_tokens' = r.tokens
           /\ clock' = r.clock
           /\ panicked' = r.panic
           /\ last' = IF r.panic
                      THEN [Returned("trace_and_phantom", input) EXCEPT !.panic = TRUE]
                      ELSE [Returned("trace_and_phantom", input) EXCEPT
                                !.text = r.text, !.events = r.events]
           /\ token_log' = IF r.panic THEN token_log
                           ELSE token_log \cup TokenizeEvents(r.events)
    /\ calls' = calls + 1
    /\ UNCHANGED <<scenario, api, overflow_checks, clock_step, compiled_rules,
                   processing_stats, session>>
    /\ UNCHANGED serverVars

\* processor.phantom_text(input)
PhantomText(input) ==
    /\ Ready /\ api = "processor"
    /\ \E r \in {phantom_text(compiled_rules, processing_stats, trace_stats,
                               phantom_tokens, input, clock, clock_step, overflow_checks)} :
           /\ trace_stats' = r.stats
           /\ phantom_tokens' = r.tokens
           /\ processing_stats' = r.processing_stats
           /\ clock' = r.clock
           /\ panicked' = r.panic
           /\ last' = IF r.panic
                      THEN [Returned("phantom_text", input) EXCEPT !.panic = TRUE]
                      ELSE [Returned("phantom_text", input) EXCEPT
                                !.text = r.result.phantomed_text,
                                !.events = r.result.phantom_events,
                                !.lines_processed = r.result.lines_processed,
                                !.lines_phantomed = r.result.lines_phantomed]
           /\ token_log' = IF r.panic THEN token_log
                           ELSE token_log \cup TokenizeEvents(r.result.phantom_events)
           /\ session' = IF r.panic THEN session
                         ELSE [lines |-> session.lines + r.result.lines_processed,
                               phantomed |-> session.phantomed + r.result.lines_phantomed,
                               events |-> session.events + Len(r.result.phantom_events)]
    /\ calls' = calls + 1
    /\ UNCHANGED <<scenario, api, overflow_checks, clock_step, compiled_rules>>
    /\ UNCHANGED serverVars

\* A report that takes the statistics with it: it returns them and leaves
\* them reset.
GetTraceReport_Drains ==
    /\ Ready
    /\ last' = [Returned("get_trace_report", <<>>) EXCEPT
                   !.report = Some(get_trace_report(trace_stats, clock))]
    /\ trace_stats' = reset_traces(trace_stats)
    /\ clock' = clock + clock_step
    /\ calls' = calls + 1
    /\ UNCHANGED <<scenario, api, overflow_checks, clock_step, compiled_rules,
                   phantom_tokens, processing_stats, panicked, token_log, session>>
    /\ UNCHANGED serverVars

\* engine.get_trace_report() / processor.get_trace_report()
GetTraceReport ==
    /\ Ready
    /\ last' = [Returned("get_trace_report", <<>>) EXCEPT
                   !.report = Some(get_trace_report(trace_stats, clock))]
    /\ clock' = clock + clock_step
    /\ calls' = calls + 1
    /\ UNCHANGED <<scenario, api, overflow_checks, clock_step, compiled_rules, trace_stats,
                   phantom_tokens, processing_stats, panicked, token_log, session>>
    /\ UNCHANGED serverVars

\* processor.get_processing_stats()
GetProcessingStats ==
    /\ Ready /\ api = "processor"
    /\ last' = [Returned("get_processing_stats", <<>>) EXCEPT
                   !.report = Some(get_trace_report(trace_stats, clock)),
                   !.counters = Some([lines_processed |-> processing_stats.lines_processed,
                                      lines_phantomed |-> processing_stats.lines_phantomed,
                                      total_phantom_events |-> processing_stats.total_phantom_events,
                                      processing_time_ms |-> processing_stats.processing_time])]
    /\ clock' = clock + clock_step
    /\ calls' = calls + 1
    /\ UNCHANGED <<scenario, api, overflow_checks, clock_step, compiled_rules, trace_stats,
                   phantom_tokens, processing_stats, panicked, token_log, session>>
    /\ UNCHANGED serverVars

\* engine.reset_traces()
ResetTraces ==
    /\ Ready /\ api = "tracer"
    /\ trace_stats' = reset_traces(trace_stats)
    /\ phantom_tokens' = NoTokens
    /\ last' = Returned("reset_traces", <<>>)
    /\ calls' = calls + 1
    /\ UNCHANGED <<scenario, api, overflow_checks, clock_step, compiled_rules,
                   processing_stats, clock, panicked, token_log, session>>
    /\ UNCHANGED serverVars

\* processor.reset_stats()
ResetStats ==
    /\ Ready /\ api = "processor"
    /\ processing_stats' = DefaultProcessingStats
    /\ trace_stats' = reset_traces(trace_stats)
    /\ phantom_tokens' = NoTokens
    /\ session' = NoSession
    /\ last' = Returned("reset_stats", <<>>)
    /\ calls' = calls + 1
    /\ UNCHANGED <<scenario, api, overflow_checks, clock_step, compiled_rules, clock,
                   panicked, token_log>>
    /\ UNCHANGED serverVars

Next ==
    \/ \E input \in Scenarios[scenario].lines : TraceAndPhantom(input)
    \/ \E input \in Scenarios[scenario].lines \cup Scenarios[scenario].docs :
          PhantomText(input)
    \/ GetTraceReport
    \/ GetProcessingStats
    \/ ResetTraces
    \/ ResetStats

Spec == Init /\ [][Next]_vars

-----------------------------------------------------------------------------
(* apply_obfuscation with method Phantom, on its own: one application to   *)
(* a value and a preserve_chars drawn at the start.                        *)

\* The longest value, in characters, and the largest preserve_chars.
MaxValueLen == 5
MaxPreserve == 2

PhantomAlphabet == {"a", EAcute}
PhantomValues == UNION {[1 .. n -> PhantomAlphabet] : n \in 0 .. MaxValueLen}
PreserveChars == {None} \cup {Some(k) : k \in 0 .. MaxPreserve}

InitPhantom ==
    /\ scenario = 5
    /\ api = "tracer"
    /\ overflow_checks = FALSE
    /\ compiled_rules = CompileRules(Scenarios[scenario].rules)
    /\ trace_stats = InitialStats(Scenarios[scenario].rules)
    /\ phantom_tokens = NoTokens
    /\ processing_stats = DefaultProcessingStats
    /\ clock = 0
    /\ clock_step = 0
    /\ panicked = FALSE
    /\ \E value \in PhantomValues, preserve_chars \in PreserveChars :
          last = [op |-> "matched", input |-> value, preserve_chars |-> preserve_chars,
                  panic |-> FALSE, text |-> <<>>]
    /\ calls = 0
    /\ token_log = {}
    /\ session = NoSession
    /\ NoServer

\* self.apply_obfuscation(matched, &ObfuscationMethod::Phantom, preserve_chars, &None)
ApplyPhantom ==
    /\ last.op = "matched"
    /\ \E r \in {apply_obfuscation(phantom_tokens, last.input, "Phantom",
                                    last.preserve_chars, None)} :
          /\ last' = [last EXCEPT !.op = "apply_obfuscation", !.panic = r.panic,
                                  !.text = r.out]
          /\ phantom_tokens' = r.tokens
          /\ panicked' = r.panic
    /\ UNCHANGED <<scenario, api, overflow_checks, compiled_rules, trace_stats,
                   processing_stats, clock, clock_step, calls, token_log, session>>
    /\ UNCHANGED serverVars

NextPhantom == ApplyPhantom

SpecPhantom == InitPhantom /\ [][NextPhantom]_vars

-----------------------------------------------------------------------------
(* Construction: PhantomTracer::new and PhantomTraceProcessor::new on a    *)
(* rule list drawn at the start, with patterns the regex crate rejects.    *)

\* A pattern that Regex::new rejects: its source text, and what the error
\* prints after the pattern (the pointer line and the error line).
SyntaxError(source, message) ==
    << <<[kind |-> "error", source |-> source, message |-> message]>> >>

IsValidPattern(pattern) ==
    \A a \in DOMAIN pattern : \A i \in DOMAIN pattern[a] : pattern[a][i].kind # "error"

Str_RegexParseError ==
    <<"r", "e", "g", "e", "x", " ", "p", "a", "r", "s", "e", " ",
      "e", "r", "r", "o", "r", ":", "\n", " ", " ", " ", " ">>
Str_CaseInsensitive == <<"(", "?", "i", ")">>

\* The text of the regex::Error of Regex::new(&format!("(?i){}", pattern)):
\* the pattern as it was given to the parser, and the syntax message.
RegexError(pattern) ==
    Str_RegexParseError \o Str_CaseInsensitive \o pattern[1][1].source
        \o <<"\n">> \o pattern[1][1].message

RECURSIVE NewFrom(_, _, _, _)
\* The for loop of PhantomTracer::new from rule i on: the ? returns the
\* error of the first pattern that does not compile.
NewFrom(rules, i, compiled, stats) ==
    IF i > Len(rules)
    THEN [ok |-> TRUE, compiled_rules |-> compiled, trace_stats |-> stats,
          phantom_tokens |-> NoTokens]
    ELSE IF ~IsValidPattern(rules[i].pattern)
    THEN [ok |-> FALSE, error |-> RegexError(rules[i].pattern)]
    ELSE NewFrom(rules, i + 1, Append(compiled, CompileRule(rules[i])),
                 [n \in DOMAIN stats \cup {rules[i].name} |->
                     IF n = rules[i].name THEN DefaultStats(rules[i].severity)
                     ELSE stats[n]])

RECURSIVE NewSkipping(_, _, _, _)
\* A loop that leaves out the rules whose pattern does not compile.
NewSkipping(rules, i, compiled, stats) ==
    IF i > Len(rules)
    THEN [ok |-> TRUE, compiled_rules |-> compiled, trace_stats |-> stats,
          phantom_tokens |-> NoTokens]
    ELSE IF ~IsValidPattern(rules[i].pattern)
    THEN NewSkipping(rules, i + 1, compiled, stats)
    ELSE NewSkipping(rules, i + 1, Append(compiled, CompileRule(rules[i])),
                     [n \in DOMAIN stats \cup {rules[i].name} |->
                         IF n = rules[i].name THEN DefaultStats(rules[i].severity)
                         ELSE stats[n]])

\* A constructor that skips the invalid rules and builds an engine of the rest.
new_SkipsInvalid(rules) == NewSkipping(rules, 1, <<>>, NoTokens)

\* PhantomTracer::new(rules): Ok(engine) or Err(error).
new(rules) == NewFrom(rules, 1, <<>>, NoTokens)

\* PhantomTraceProcessor::new(config), with config.tracing.rules = rules.
processor_new(rules) ==
    (CHOOSE y \in {IF tracer.ok
                   THEN [ok |-> TRUE, compiled_rules |-> tracer.compiled_rules,
                         trace_stats |-> tracer.trace_stats,
                         phantom_tokens |-> tracer.phantom_tokens,
                         processing_stats |-> DefaultProcessingStats]
                   ELSE tracer : tracer \in {new(rules)}} : TRUE)

\* The most rules of a list.
MaxRules == 3

Str_UnclosedGroup ==
    <<" ", " ", " ", " ", " ", " ", " ", " ", "^", "\n", "e", "r", "r", "o", "r", ":", " ",
      "u", "n", "c", "l", "o", "s", "e", "d", " ", "g", "r", "o", "u", "p">>
Str_UnclosedClass ==
    <<" ", " ", " ", " ", " ", " ", " ", " ", "^", "\n", "e", "r", "r", "o", "r", ":", " ",
      "u", "n", "c", "l", "o", "s", "e", "d", " ", "c", "h", "a", "r", "a", "c", "t", "e", "r",
      " ", "c", "l", "a", "s", "s">>

\* The rules the lists are made of; the names are texts here.
RulePool ==
    { TraceRule(<<"i", "d">>, DigitsPattern, "Mask", None, None, "Low"),
      TraceRule(<<"a", "b">>, AbPattern, "Vanish", None, None, "High"),
      TraceRule(<<"z", "i", "p">>, SyntaxError(<<"(">>, Str_UnclosedGroup),
                "Mask", None, None, "High"),
      TraceRule(<<"k", "e", "y">>, SyntaxError(<<"[", "a">>, Str_UnclosedClass),
                "Phantom", None, None, "Critical") }

RuleLists == UNION {[1 .. n -> RulePool] : n \in 0 .. MaxRules}

InitNew ==
    /\ scenario = 2
    /\ api \in {"tracer", "processor"}
    /\ overflow_checks = FALSE
    /\ compiled_rules = <<>>
    /\ trace_stats = NoTokens
    /\ phantom_tokens = NoTokens
    /\ processing_stats = DefaultProcessingStats
    /\ clock = 0
    /\ clock_step = 0
    /\ panicked = FALSE
    /\ \E rules \in RuleLists : last = [op |-> "rules", input |-> rules]
    /\ calls = 0
    /\ token_log = {}
    /\ session = NoSession
    /\ NoServer

\* PhantomTracer::new(&rules) / PhantomTraceProcessor::new(config): the
\* engine exists only if the constructor returned Ok.
New ==
    /\ last.op = "rules"
    /\ \E r \in {IF api = "tracer" THEN new(last.input) ELSE processor_new(last.input)} :
          /\ last' = [op |-> "new", input |-> last.input, ok |-> r.ok,
                      error |-> IF r.ok THEN None ELSE Some(r.error)]
          /\ compiled_rules' = IF r.ok THEN r.compiled_rules ELSE compiled_rules
          /\ trace_stats' = IF r.ok THEN r.trace_stats ELSE trace_stats
          /\ phantom_tokens' = IF r.ok THEN r.phantom_tokens ELSE phantom_tokens
          /\ processing_stats' = IF r.ok /\ api = "processor" THEN r.processing_stats
                                 ELSE processing_stats
    /\ UNCHANGED <<scenario, api, overflow_checks, clock, clock_step, panicked, calls,
                   token_log, session>>
    /\ UNCHANGED serverVars

NextNew == New

SpecNew == InitNew /\ [][NextNew]_vars

-----------------------------------------------------------------------------
(* main and its long-running modes.  main installs the panic hook and the  *)
(* signal handler, then runs one mode: stream mode (one pipeline on        *)
(* stdin), the TCP server (an accept loop that spawns one thread per       *)
(* connection, each with a pipeline of its own), the health server or the  *)
(* file monitor (a loop that polls the shutdown flag and sleeps).  The     *)
(* threads of one process read one clock.                                  *)

\* The most connections the accept loop takes, and the most lines one
\* session (a connection, or stdin) delivers.
MaxConnections == 2
MaxConnLines == 2

\* The rule lists the served sessions are configured with, and the lines
\* their peers send: the texts of the session's scenario of at most
\* MaxLineLen characters.
ServerScenarios == {4, 5}
MaxLineLen == 2
ServerLines == {line \in Scenarios[scenario].lines : Len(line) <= MaxLineLen}

\* A thread the accept loop has spawned, before handle_tcp_client runs: the
\* lines its peer has sent, the lines it has read and the lines it has
\* written back.
Spawned ==
    [pc |-> "spawned", sent |-> <<>>, read |-> <<>>, written |-> <<>>, processor |-> <<>>]

InitServer ==
    /\ scenario \in ServerScenarios
    /\ api = "processor"
    /\ overflow_checks \in BOOLEAN
    /\ compiled_rules = <<>>
    /\ trace_stats = NoTokens
    /\ phantom_tokens = NoTokens
    /\ processing_stats = DefaultProcessingStats
    /\ clock = 0
    /\ clock_step \in ClockSteps
    /\ panicked = FALSE
    /\ last = Returned("main", <<>>)
    /\ calls = 0
    /\ token_log = {}
    /\ session = NoSession
    /\ mode \in {"stream", "tcp", "health", "monitor"}
    /\ shutdown_signal = FALSE
    /\ main_pc = IF mode = "stream" THEN "start" ELSE "loop"
    /\ exited = FALSE
    /\ connections = <<>>

\* The process runs: no panic hook has exited it and main has not returned.
Running == ~exited /\ main_pc # "returned"

\* PhantomTraceProcessor::new(config.clone())? at the head of a session: the
\* session serves lines, or ends with the construction error.
StartSession(conn) ==
    (CHOOSE y \in {IF r.ok
                   THEN [conn EXCEPT !.pc = "serving",
                                     !.processor = [compiled_rules |-> r.compiled_rules,
                                                    trace_stats |-> r.trace_stats,
                                                    phantom_tokens |-> r.phantom_tokens,
                                                    processing_stats |-> r.processing_stats]]
                   ELSE [conn EXCEPT !.pc = "closed"] :
                       r \in {processor_new(Scenarios[scenario].rules)}} : TRUE)

\* One iteration of a session's loop on the next line its peer sent:
\* phantom_text(&line), then writeln! of the phantomed text.  A panic runs
\* the panic hook.
ServeLine(conn, now) ==
    (CHOOSE y \in {(CHOOSE y \in {IF r.panic
                   THEN [panic |-> TRUE, clock |-> r.clock,
                         conn |-> [conn EXCEPT !.read = Append(@, line)]]
                   ELSE [panic |-> FALSE, clock |-> r.clock,
                         conn |-> [conn EXCEPT
                                     !.read = Append(@, line),
                                     !.written = Append(@, r.result.phantomed_text),
                                     !.processor = [compiled_rules |-> @.compiled_rules,
                                                    trace_stats |-> r.stats,
                                                    phantom_tokens |-> r.tokens,
                                                    processing_stats |-> r.processing_stats]]] :
                       r \in {phantom_text(conn.processor.compiled_rules,
                                           conn.processor.processing_stats,
                                           conn.processor.trace_stats,
                                           conn.processor.phantom_tokens,
                                           line, now, clock_step, overflow_checks)}} : TRUE) :
                       line \in {conn.sent[Len(conn.read) + 1]}} : TRUE)

\* The peer of session c (a TCP client, or whoever writes to stdin) sends a
\* line.
Send(c, line) ==
    /\ Running
    /\ connections[c].pc \in {"spawned", "serving"}
    /\ Len(connections[c].sent) < MaxConnLines
    /\ connections' = [connections EXCEPT ![c].sent = Append(@, line)]
    /\ UNCHANGED <<scenario, api, overflow_checks, compiled_rules, trace_stats,
                   phantom_tokens, processing_stats, clock, clock_step, panicked, last,
                   calls, token_log, session, mode, shutdown_signal, main_pc, exited>>

\* The ctrlc handler: shutdown.store(true)
Signal ==
    /\ Running /\ ~shutdown_signal
    /\ shutdown_signal' = TRUE
    /\ UNCHANGED <<scenario, api, overflow_checks, compiled_rules, trace_stats,
                   phantom_tokens, processing_stats, clock, clock_step, panicked, last,
                   calls, token_log, session, mode, main_pc, exited, connections>>

\* tcp_server_mode: listener.incoming() yields a stream; thread::spawn
Accept ==
    /\ Running /\ mode = "tcp"
    /\ Len(connections) < MaxConnections
    /\ connections' = Append(connections, Spawned)
    /\ UNCHANGED <<scenario, api, overflow_checks, compiled_rules, trace_stats,
                   phantom_tokens, processing_stats, clock, clock_step, panicked, last,
                   calls, token_log, session, mode, shutdown_signal, main_pc, exited>>

\* handle_tcp_client: the processor of connection c is constructed
HandlerNew(c) ==
    /\ Running /\ mode = "tcp"
    /\ c \in DOMAIN connections
    /\ connections[c].pc = "spawned"
    /\ connections' = [connections EXCEPT ![c] = StartSession(@)]
    /\ UNCHANGED <<scenario, api, overflow_checks, compiled_rules, trace_stats,
                   phantom_tokens, processing_stats, clock, clock_step, panicked, last,
                   calls, token_log, session, mode, shutdown_signal, main_pc, exited>>

\* handle_tcp_client: one iteration of for line in reader.lines()
HandleLine(c) ==
    /\ Running /\ mode = "tcp"
    /\ c \in DOMAIN connections
    /\ connections[c].pc = "serving"
    /\ Len(connections[c].read) < Len(connections[c].sent)
    /\ \E r \in {ServeLine(connections[c], clock)} :
          /\ connections' = [connections EXCEPT ![c] = r.conn]
          /\ clock' = r.clock
          /\ exited' = r.panic
    /\ UNCHANGED <<scenario, api, overflow_checks, compiled_rules, trace_stats,
                   phantom_tokens, processing_stats, clock_step, panicked, last,
                   calls, token_log, session, mode, shutdown_signal, main_pc>>

\* handle_tcp_client: the client has its answers and closes the connection;
\* reader.lines() ends
ClientClose(c) ==
    /\ Running /\ mode = "tcp"
    /\ connections[c].pc = "serving"
    /\ Len(connections[c].read) = Len(connections[c].sent)
    /\ connections' = [connections EXCEPT ![c].pc = "closed"]
    /\ UNCHANGED <<scenario, api, overflow_checks, compiled_rules, trace_stats,
                   phantom_tokens, processing_stats, clock, clock_step, panicked, last,
                   calls, token_log, session, mode, shutdown_signal, main_pc, exited>>

\* stream_mode: the processor is constructed; a construction error returns
StreamNew ==
    /\ Running /\ mode = "stream" /\ main_pc = "start"
    /\ \E conn \in {StartSession(Spawned)} :
          /\ connections' = <<conn>>
          /\ main_pc' = IF conn.pc = "serving" THEN "loop" ELSE "returned"
    /\ UNCHANGED <<scenario, api, overflow_checks, compiled_rules, trace_stats,
                   phantom_tokens, processing_stats, clock, clock_step, panicked, last,
                   calls, token_log, session, mode, shutdown_signal, exited>>

\* stream_mode: one iteration of for line in stdin.lock().lines()
StreamLine ==
    /\ Running /\ mode = "stream" /\ main_pc = "loop"
    /\ Len(connections[1].read) < Len(connections[1].sent)
    /\ \E r \in {ServeLine(connections[1], clock)} :
          /\ connections' = <<r.conn>>
          /\ clock' = r.clock
          /\ exited' = r.panic
    /\ UNCHANGED <<scenario, api, overflow_checks, compiled_rules, trace_stats,
                   phantom_tokens, processing_stats, clock_step, panicked, last,
                   calls, token_log, session, mode, shutdown_signal, main_pc>>

\* stream_mode: stdin ends; the loop ends and main returns
StreamEof ==
    /\ Running /\ mode = "stream" /\ main_pc = "loop"
    /\ Len(connections[1].read) = Len(connections[1].sent)
    /\ connections' = [connections EXCEPT ![1].pc = "closed"]
    /\ main_pc' = "returned"
    /\ UNCHANGED <<scenario, api, overflow_checks, compiled_rules, trace_stats,
                   phantom_tokens, processing_stats, clock, clock_step, panicked, last,
                   calls, token_log, session, mode, shutdown_signal, exited>>

\* health_server_mode / file_monitor_mode: if shutdown_signal.load() { break }
\* at the head of the loop, then thread::sleep
Poll ==
    /\ Running /\ mode \in {"health", "monitor"} /\ main_pc = "loop"
    /\ main_pc' = IF shutdown_signal THEN "returned" ELSE "sleep"
    /\ UNCHANGED <<scenario, api, overflow_checks, compiled_rules, trace_stats,
                   phantom_tokens, processing_stats, clock, clock_step, panicked, last,
                   calls, token_log, session, mode, shutdown_signal, exited, connections>>

\* health_server_mode / file_monitor_mode: thread::sleep returns after a second
Wake ==
    /\ Running /\ mode \in {"health", "monitor"} /\ main_pc = "sleep"
    /\ main_pc' = "loop"
    /\ UNCHANGED <<scenario, api, overflow_checks, compiled_rules, trace_stats,
                   phantom_tokens, processing_stats, clock, clock_step, panicked, last,
                   calls, token_log, session, mode, shutdown_signal, exited, connections>>

NextServer ==
    \/ Signal
    \/ Accept
    \/ \E c \in DOMAIN connections : HandlerNew(c)
    \/ \E c \in DOMAIN connections : \E line \in ServerLines : Send(c, line)
    \/ \E c \in DOMAIN connections : HandleLine(c)
    \/ \E c \in DOMAIN connections : ClientClose(c)
    \/ StreamNew
    \/ StreamLine
    \/ StreamEof
    \/ Poll
    \/ Wake

SpecServer == InitServer /\ [][NextServer]_vars

\* The scheduler runs every thread that can take a step: main in its
\* polling loop or on the lines stdin holds, a handler on the lines its
\* connection holds.  What a peer sends, and when it closes, is up to the
\* peer.
FairServer ==
    /\ SpecServer
    /\ WF_vars(Poll)
    /\ WF_vars(Wake)
    /\ WF_vars(StreamNew)
    /\ WF_vars(StreamLine)
    /\ \A c \in 1..MaxConnections : WF_vars(HandlerNew(c)) /\ WF_vars(HandleLine(c))

-----------------------------------------------------------------------------
(* PhantomTraceConfig::get_rules_by_severity, on its own: one call on a    *)
(* configuration whose rule list and the severity asked for are drawn at   *)
(* the start.                                                              *)

\* self.tracing.rules.iter().filter(|rule| matches!(&rule.severity, _severity))
\* The pattern _severity is an identifier: it binds whatever it is matched
\* against and does not compare with the parameter of the same name, so the
\* filter keeps every rule.
get_rules_by_severity(rules, _severity) ==
    LET matches(value) == \E binding \in {value} : TRUE
    IN  SelectSeq(rules, LAMBDA rule : matches(rule.severity))

InitSeverity ==
    /\ scenario = 6
    /\ api = "config"
    /\ overflow_checks = FALSE
    /\ compiled_rules = <<>>
    /\ trace_stats = NoTokens
    /\ phantom_tokens = NoTokens
    /\ processing_stats = DefaultProcessingStats
    /\ clock = 0
    /\ clock_step = 0
    /\ panicked = FALSE
    /\ \E n \in 0 .. MaxRules :
          \E rules \in [1 .. n -> {OverlapRules[1], OverlapRules[2], OverlapRules[3],
                                   VanishRules[2]}] :
             \E severity \in {Severities[i] : i \in DOMAIN Severities} :
                last = [op |-> "config", input |-> rules, severity |-> severity]
    /\ calls = 0
    /\ token_log = {}
    /\ session = NoSession
    /\ NoServer

\* config.get_rules_by_severity(severity)
GetRulesBySeverity ==
    /\ last.op = "config"
    /\ last' = [op |-> "get_rules_by_severity", input |-> last.input,
                severity |-> last.severity,
                rules |-> get_rules_by_severity(last.input, last.severity)]
    /\ UNCHANGED <<scenario, api, overflow_checks, compiled_rules, trace_stats,
                   phantom_tokens, processing_stats, clock, clock_step, panicked, calls,
                   token_log, session>>
    /\ UNCHANGED serverVars

SpecSeverity == InitSeverity /\ [][GetRulesBySeverity]_vars

-----------------------------------------------------------------------------
(* Properties.                                                             *)

\* sub occurs in text.
Contains(text, sub) ==
    \E p \in 0 .. (Len(text) - Len(sub)) : Slice(text, p, p + Len(sub)) = sub

\* The compiled rules of the session that match somewhere in text.
MatchingRules(text) ==
    {k \in DOMAIN compiled_rules : FindAll(text, compiled_rules[k].regex) # <<>>}

\* The method of the compiled rule an event names (rule names are distinct
\* in every session).
MethodOf(event) ==
    compiled_rules[CHOOSE k \in DOMAIN compiled_rules :
                      compiled_rules[k].name = event.rule_name].method

\* C1: a trace_and_phantom call on a text in which no compiled rule matches,
\* whatever the rule list and whatever was called before, returns the text
\* unchanged and no events, and leaves every rule's statistics and the token
\* table as they were.
C1_NoMatchLeavesAllUnchanged ==
    [][(/\ last'.op = "trace_and_phantom"
        /\ calls' = calls + 1
        /\ MatchingRules(last'.input) = {})
          => /\ ~last'.panic
             /\ last'.text = last'.input
             /\ last'.events = <<>>
             /\ trace_stats' = trace_stats
             /\ phantom_tokens' = phantom_tokens]_vars

\* A call without a match returned, on an engine with rules whose earlier
\* calls left statistics.
C1_Witness ==
    /\ last.op = "trace_and_phantom"
    /\ ~last.panic
    /\ compiled_rules # <<>>
    /\ MatchingRules(last.input) = {}
    /\ last.text = last.input
    /\ \E n \in DOMAIN trace_stats : trace_stats[n].phantoms_created > 0

\* C2: no engine operation panics, for any rule list, any input (empty and
\* multi-byte ones too) and any method (a replacement longer than its match
\* too): trace_and_phantom always completes.
C2_NoOperationPanics ==
    ~(last.op = "trace_and_phantom" /\ last.panic)

\* ddd-dd-dddd, with nothing asked of the characters around it.
SsnShape == <<D(3, 3), Lit("-"), D(2, 2), Lit("-"), D(4, 4)>>

\* The SSN-shaped substrings of text.
SsnValues(text) ==
    {Slice(text, p, p + 11) :
        p \in {q \in 0 .. (Len(text) - 11) : MatchItems(text, SsnShape, 1, q) # -1}}

\* text holds PHANTOM_ followed by 8 uppercase hex digits.
HasMirrorToken(text) ==
    \E p \in 0 .. (Len(text) - 16) :
        /\ Slice(text, p, p + 8) = Str_PHANTOM_
        /\ \A i \in (p + 9) .. (p + 16) : text[i] \in Range(HexChars)

\* The rule ssn matches in text, once, and no other rule does.
OnlySsnMatches(text) ==
    /\ MatchingRules(text) # {}
    /\ \A k \in MatchingRules(text) :
          /\ compiled_rules[k].name = "ssn"
          /\ Len(FindAll(text, compiled_rules[k].regex)) = 1

\* C3: with the default rules, processing a line that contains an SSN-shaped
\* value completes, and the output does not contain the SSN, contains a
\* Mirror token, and there is exactly one event, of rule ssn with severity
\* High.  Stated for the lines the claim is surely about: the value stands
\* on its own as a word, and nothing else in the line is sensitive.
C3_SsnLineIsPhantomed ==
    (/\ compiled_rules = CompileRules(default_trace_rules)
     /\ last.op \in {"trace_and_phantom", "phantom_text"}
     /\ SsnValues(last.input) # {}
     /\ OnlySsnMatches(last.input))
        => /\ ~last.panic
           /\ \A v \in SsnValues(last.input) : ~Contains(last.text, v)
           /\ HasMirrorToken(last.text)
           /\ Len(last.events) = 1
           /\ last.events[1].rule_name = "ssn"
           /\ last.events[1].severity = "High"

\* C4: on one engine, every occurrence of an equal value matched by a
\* Tokenize rule is replaced by the same token, in one call and across calls.
C4_EqualValuesGetOneToken ==
    \A a \in token_log : \A b \in token_log : a[1] = b[1] => a[2] = b[2]

\* Two calls on a plain engine tokenized one value, the last call twice.
C4_Witness ==
    /\ api = "tracer"
    /\ last.op = "trace_and_phantom"
    /\ Len(last.events) = 2
    /\ \A i \in DOMAIN last.events : MethodOf(last.events[i]) = "Tokenize"
    /\ last.events[1].phantom_value = last.events[2].phantom_value
    /\ Cardinality(token_log) = 1
    /\ \E n \in DOMAIN trace_stats : trace_stats[n].phantoms_created = 2

\* What Phantom(k) is to return for value, counting in characters: all
\* placeholders when the value has at most 2k characters, else the first k
\* and the last k characters around placeholders for the others.
PhantomByCharacters(value, k) ==
    IF Len(value) <= 2 * k
    THEN Repeat(Block, Len(value))
    ELSE Slice(value, 0, k) \o Repeat(Block, Len(value) - 2 * k)
            \o Slice(value, Len(value) - k, Len(value))

\* C5: Phantom(k) on a value of n characters returns n placeholders when
\* n <= 2k, and the first k characters, n - 2k placeholders and the last k
\* characters when n > 2k, multi-byte characters counting as one each.
C5_PhantomCountsCharacters ==
    last.op = "apply_obfuscation"
        => /\ ~last.panic
           /\ last.text = PhantomByCharacters(last.input,
                  IF last.preserve_chars = None THEN 0 ELSE last.preserve_chars[1])

\* The events are those of one rule, a Vanish rule.
OneVanishRuleMatched(events) ==
    /\ events # <<>>
    /\ \A i \in DOMAIN events :
          /\ events[i].rule_name = events[1].rule_name
          /\ MethodOf(events[i]) = "Vanish"

RECURSIVE WithoutSpans(_, _, _)
\* text from character p on, without the characters inside the position of
\* one of events.
WithoutSpans(text, events, p) ==
    IF p >= Len(text) THEN <<>>
    ELSE (IF \E i \in DOMAIN events :
                /\ events[i].position[1] <= ByteOffset(text, p)
                /\ ByteOffset(text, p) < events[i].position[2]
          THEN <<>> ELSE <<text[p + 1]>>)
         \o WithoutSpans(text, events, p + 1)

\* C6, as the code has it: a Vanish rule deletes every span it matches, and
\* nothing else: when it is the only rule that matches, the output is the
\* input without the matched spans.  (What is left and right of a deleted
\* span can join up to a new occurrence of what was matched.)
C6_VanishDeletesTheMatchedSpans ==
    (/\ last.op = "trace_and_phantom"
     /\ ~last.panic
     /\ OneVanishRuleMatched(last.events))
        => /\ \A i \in DOMAIN last.events : last.events[i].phantom_value = <<>>
           /\ last.text = WithoutSpans(last.input, last.events, 0)

\* A Vanish rule deleted a span, and what was around it joined up to what
\* it had matched.
C6_Witness ==
    /\ last.op = "trace_and_phantom"
    /\ ~last.panic
    /\ OneVanishRuleMatched(last.events)
    /\ Contains(last.text, last.events[1].original_value)

\* C6, as the claim has it: after a call the output contains no occurrence of
\* a substring that a Vanish rule matched.
C6_NoMatchedSubstringRemains ==
    (last.op = "trace_and_phantom" /\ ~last.panic)
        => \A i \in DOMAIN last.events :
              MethodOf(last.events[i]) = "Vanish"
                 => ~Contains(last.text, last.events[i].original_value)

WithoutIds(events) ==
    [i \in DOMAIN events |->
        [rule_name |-> events[i].rule_name, severity |-> events[i].severity,
         original_value |-> events[i].original_value,
         phantom_value |-> events[i].phantom_value,
         position |-> events[i].position]]

\* What a caller sees of trace_and_phantom(text) on an engine.
EngineOutcome(compiled, stats, tokens, text) ==
    (CHOOSE y \in {IF r.panic THEN [panic |-> TRUE]
                   ELSE [panic |-> FALSE, text |-> r.text,
                         events |-> WithoutIds(r.events)] : r \in {trace_and_phantom(compiled, stats, tokens, text, 0, clock_step,
                                           overflow_checks)}} : TRUE)

\* What a caller sees of phantom_text(text) on a pipeline.
PipelineOutcome(compiled, pstats, stats, tokens, text) ==
    (CHOOSE y \in {IF r.panic THEN [panic |-> TRUE]
                   ELSE [panic |-> FALSE, text |-> r.result.phantomed_text,
                         events |-> WithoutIds(r.result.phantom_events),
                         lines_processed |-> r.result.lines_processed,
                         lines_phantomed |-> r.result.lines_phantomed] : r \in {phantom_text(compiled, pstats, stats, tokens, text, 0, clock_step,
                                       overflow_checks)}} : TRUE)

\* C8: the compiled rules and every rule's severity label stay what
\* construction made them, and a reset leaves every rule's counters zero and
\* its timestamps absent, the token table empty and the pipeline's counters
\* zero; every text then gives the output and the events (ids aside) it
\* gives on a new engine with the same rules.
C8_ResetLeavesAFreshEngine ==
    /\ compiled_rules = CompileRules(Scenarios[scenario].rules)
    /\ DOMAIN trace_stats = DOMAIN InitialStats(Scenarios[scenario].rules)
    /\ \A n \in DOMAIN trace_stats :
          trace_stats[n].severity_level
             = InitialStats(Scenarios[scenario].rules)[n].severity_level
    /\ last.op \in {"reset_traces", "reset_stats"}
          => /\ \A n \in DOMAIN trace_stats :
                   /\ trace_stats[n].phantoms_created = 0
                   /\ trace_stats[n].characters_traced = 0
                   /\ trace_stats[n].first_trace = None
                   /\ trace_stats[n].last_trace = None
             /\ phantom_tokens = NoTokens
             /\ last.op = "reset_stats"
                   => /\ processing_stats.lines_processed = 0
                      /\ processing_stats.lines_phantomed = 0
                      /\ processing_stats.total_phantom_events = 0
                      /\ processing_stats.processing_time = 0
             /\ \A text \in Scenarios[scenario].lines :
                   EngineOutcome(compiled_rules, trace_stats, phantom_tokens, text)
                      = EngineOutcome(CompileRules(Scenarios[scenario].rules),
                                      InitialStats(Scenarios[scenario].rules),
                                      NoTokens, text)
             /\ last.op = "reset_stats"
                   => \A text \in Scenarios[scenario].docs :
                         PipelineOutcome(compiled_rules, processing_stats,
                                         trace_stats, phantom_tokens, text)
                            = PipelineOutcome(CompileRules(Scenarios[scenario].rules),
                                              DefaultProcessingStats,
                                              InitialStats(Scenarios[scenario].rules),
                                              NoTokens, text)

\* A reset ran on an engine that had minted tokens; the table is empty.
C8_Witness ==
    /\ last.op \in {"reset_traces", "reset_stats"}
    /\ token_log # {}
    /\ phantom_tokens = NoTokens
    /\ \A n \in DOMAIN trace_stats : trace_stats[n].phantoms_created = 0

\* C9: on a pipeline, the cumulative lines_processed, lines_phantomed and
\* total_phantom_events are the sums of what the phantom_text calls since
\* construction or the last reset returned: lines, lines with an event,
\* events.
C9_CountersAreTheSums ==
    api = "processor"
        => /\ processing_stats.lines_processed = session.lines
           /\ processing_stats.lines_phantomed = session.phantomed
           /\ processing_stats.total_phantom_events = session.events

\* Inputs of 5 and then 3 lines: 8 lines processed.
C9_Witness ==
    /\ api = "processor"
    /\ calls = 2
    /\ last.op = "phantom_text"
    /\ last.input = T_three
    /\ last.lines_processed = 3
    /\ processing_stats.lines_processed = 8

\* C10: phantom_text of an input in which no rule matches on any line returns
\* no events and the input itself, byte for byte, a final newline, empty
\* lines and carriage returns included.
C10_NoMatchReturnsTheInput ==
    (/\ last.op = "phantom_text"
     /\ ~last.panic
     /\ \A line \in Range(Lines(last.input)) : MatchingRules(line) = {})
        => /\ last.events = <<>>
           /\ last.text = last.input

\* The rules of a list whose pattern does not compile.
InvalidRules(rules) == {i \in DOMAIN rules : ~IsValidPattern(rules[i].pattern)}

\* C11: construction is all or nothing: with an invalid pattern anywhere in
\* the list the constructor returns an error and there is no engine,
\* whatever valid rules stand before or after it; with valid patterns only
\* it returns an engine that holds every rule of the list, in order.
C11_ConstructionIsAllOrNothing ==
    last.op = "new"
        => IF InvalidRules(last.input) # {}
           THEN /\ ~last.ok
                /\ compiled_rules = <<>>
                /\ trace_stats = NoTokens
           ELSE /\ last.ok
                /\ compiled_rules = CompileRules(last.input)
                /\ trace_stats = InitialStats(last.input)
                /\ phantom_tokens = NoTokens

\* Construction failed on a list with a valid rule before and a valid rule
\* after the invalid one.
C11_Witness ==
    /\ last.op = "new"
    /\ ~last.ok
    /\ Len(last.input) = 3
    /\ InvalidRules(last.input) = {2}

\* C12: when construction fails, the error names the offending rule and
\* carries the syntax message of its pattern.
C12_ErrorNamesTheRule ==
    (last.op = "new" /\ ~last.ok)
        => \A i \in InvalidRules(last.input) :
              i = Min(InvalidRules(last.input))
                 => /\ Contains(last.error[1], last.input[i].name)
                    /\ Contains(last.error[1], last.input[i].pattern[1][1].message)

\* How many units the rules of S hold in field, counted one by one:
\* <<n, k>> is the k-th unit of rule n.  For a counter that wrapped
\* (negative: v stands for 2^64 + v) the units are those missing to 2^64.
Units(S, field) ==
    Cardinality(UNION {{<<n, k>> : k \in 1 .. trace_stats[n][field]} : n \in S})
MissingUnits(S, field) ==
    Cardinality(UNION {{<<n, k>> : k \in 1 .. (0 - trace_stats[n][field])} : n \in S})

\* The rules whose label is l.
RulesLabelled(l) == {n \in DOMAIN trace_stats : trace_stats[n].severity_level = l}

\* C13: a report gives total_phantoms_created as the sum of phantoms_created
\* over the rules, total_characters_traced as the sum of characters_traced
\* (as numbers: as many multiples of 2^64, and the same rest), rules_triggered
\* as the number of rules with phantoms_created > 0, and severity_breakdown
\* as the sum of phantoms_created per severity label.
C13_ReportGivesTheSums ==
    last.op \in {"get_trace_report", "get_processing_stats"}
        => LET report == last.report[1]
               names == DOMAIN trace_stats
           IN  /\ report.total_phantoms_created = Units(names, "phantoms_created")
               /\ report.total_characters_traced
                     = Units(names, "characters_traced")
                          - MissingUnits(names, "characters_traced")
               /\ (IF report.total_characters_traced < 0 THEN 1 ELSE 0)
                     = Cardinality({n \in names : trace_stats[n].characters_traced < 0})
               /\ report.rules_triggered
                     = Cardinality({n \in names : trace_stats[n].phantoms_created > 0})
               /\ DOMAIN report.severity_breakdown
                     = {trace_stats[n].severity_level : n \in names}
               /\ \A l \in DOMAIN report.severity_breakdown :
                     report.severity_breakdown[l]
                        = Units(RulesLabelled(l), "phantoms_created")

\* A report without its generation time.
WithoutTime(report) ==
    [total_phantoms_created |-> report.total_phantoms_created,
     total_characters_traced |-> report.total_characters_traced,
     rules_triggered |-> report.rules_triggered,
     severity_breakdown |-> report.severity_breakdown,
     detailed_stats |-> report.detailed_stats]

\* C14: get_trace_report and get_processing_stats change nothing: the rule
\* statistics, the token table, the compiled rules and the cumulative
\* counters are after the call what they were before it; and a report taken
\* right after another, by the same operation, equals it but for the
\* generation time.
C14_ReportsChangeNothing ==
    [][(last'.op \in {"get_trace_report", "get_processing_stats"} /\ calls' = calls + 1)
          => /\ trace_stats' = trace_stats
             /\ phantom_tokens' = phantom_tokens
             /\ compiled_rules' = compiled_rules
             /\ processing_stats' = processing_stats
             /\ last'.report[1].detailed_stats = trace_stats
             /\ last.op = last'.op
                   => /\ WithoutTime(last'.report[1]) = WithoutTime(last.report[1])
                      /\ last'.counters = last.counters]_vars

\* A report of a pipeline that has processed lines, counted phantoms and
\* minted tokens.
C14_Witness ==
    /\ last.op = "get_processing_stats"
    /\ last.report[1].total_phantoms_created > 0
    /\ last.counters[1].lines_processed > 0
    /\ phantom_tokens # NoTokens
    /\ last.report[1].detailed_stats = trace_stats

\* The last 8 characters of text.
Suffix8(text) == Slice(text, Len(text) - 8, Len(text))

\* C15: what Mirror and Tokenize put for a value depends on the value only:
\* in every call of every engine, before and after a reset, it is what
\* phantom_value gives for the value without any engine, with the 8 hex
\* digits of the value's hash at the end; and for one value the Mirror
\* output and the Tokenize output differ.
C15_MirrorAndTokenizeArePure ==
    \A i \in DOMAIN last.events :
       MethodOf(last.events[i]) \in {"Mirror", "Tokenize"}
          => \A value \in {last.events[i].original_value} :
                /\ last.events[i].phantom_value
                      = phantom_value(value, MethodOf(last.events[i])).out
                /\ Suffix8(last.events[i].phantom_value) = Hex08(phantom_hash(value))
                /\ MirrorToken(value) # MintToken(value)
                /\ phantom_value(value, "Mirror").out # phantom_value(value, "Tokenize").out

\* A value is tokenized on an engine whose table was reset after it had
\* minted tokens for two values.
C15_Witness ==
    /\ last.op \in {"trace_and_phantom", "phantom_text"}
    /\ \E i \in DOMAIN last.events : MethodOf(last.events[i]) = "Tokenize"
    /\ Cardinality(token_log) >= 2
    /\ Cardinality(DOMAIN phantom_tokens) = 1

\* What processing the lines of one connection alone produces: a new
\* pipeline that is handed the lines one by one, until they are all
\* answered or one of them panics.
RECURSIVE SoloFrom(_, _)
SoloFrom(conn, now) ==
    IF Len(conn.read) = Len(conn.sent)
    THEN [panic |-> FALSE, conn |-> conn]
    ELSE (CHOOSE y \in {IF r.panic THEN r ELSE SoloFrom(r.conn, r.clock) :
                           r \in {ServeLine(conn, now)}} : TRUE)

SoloRun(lines) == SoloFrom([StartSession(Spawned) EXCEPT !.sent = lines], 0)

\* The output lines, the counters and the token table of a session, clock
\* readings aside.
Observed(conn) ==
    [written |-> conn.written,
     phantom_tokens |-> conn.processor.phantom_tokens,
     lines_processed |-> conn.processor.processing_stats.lines_processed,
     lines_phantomed |-> conn.processor.processing_stats.lines_phantomed,
     total_phantom_events |-> conn.processor.processing_stats.total_phantom_events,
     trace_stats |-> [n \in DOMAIN conn.processor.trace_stats |->
                        <<conn.processor.trace_stats[n].phantoms_created,
                          conn.processor.trace_stats[n].characters_traced>>]]

\* The lines a connection has been served so far gave the output lines, the
\* counters and the token table that serving them alone gives, whatever the
\* other connections did in between.
ServedLinesMatchTheSoloRun ==
    mode = "tcp"
       => \A c \in DOMAIN connections :
             connections[c].pc # "spawned"
                => \A solo \in {SoloRun(connections[c].read)} :
                      Observed(connections[c]) = Observed(solo.conn)

\* C16: under every interleaving of the connections of the TCP server, each
\* connection's output lines, counters and token table are those that
\* processing its own lines alone produces: the lines served so far match
\* the solo run, and a connection that is over (closed, or cut by the end of
\* the process) whose own lines do not panic has been written the answer to
\* every line it sent.
C16_ConnectionsAreIsolated ==
    /\ ServedLinesMatchTheSoloRun
    /\ mode = "tcp"
          => \A c \in DOMAIN connections :
                exited \/ connections[c].pc = "closed"
                   => \A solo \in {SoloRun(connections[c].sent)} :
                         ~solo.panic => connections[c].written = solo.conn.written

\* The trace ids of a list of events.
TraceIds(events) == {events[i].trace_id : i \in DOMAIN events}

\* C17: no two events an engine emits carry the same trace_id, within one
\* call (as many ids as events) and from one call to the next (no id of a
\* call is an id of the call before it), whatever the clock does.
C17_TraceIdsAreUnique ==
    [][/\ Cardinality(TraceIds(last'.events)) = Len(last'.events)
       /\ TraceIds(last.events) \cap TraceIds(last'.events) = {}]_vars

\* The same, for a clock that returns a later value on every read.
TraceIdsAreUniqueOnAFineClock ==
    [][clock_step = 1
          => /\ Cardinality(TraceIds(last'.events)) = Len(last'.events)
             /\ TraceIds(last.events) \cap TraceIds(last'.events) = {}]_vars

\* Every loop of the process has ended: main has left its mode's loop (or
\* the process has exited) and no connection handler is left in its loop.
AllLoopsEnded ==
    \/ exited
    \/ /\ main_pc = "returned"
       /\ \A c \in DOMAIN connections : connections[c].pc = "closed"

\* C18: once the shutdown flag is set, every long-running loop (the TCP
\* accept loop, the connection handlers, stream mode, the health server, the
\* file monitor) eventually ends.
C18_ShutdownEndsEveryLoop == shutdown_signal ~> AllLoopsEnded

\* The same for the two polling loops alone, the health server and the file
\* monitor.
ShutdownEndsThePollingLoops ==
    (shutdown_signal /\ mode \in {"health", "monitor"}) ~> main_pc = "returned"

\* The order the rules are to be applied in: Critical, High, Medium, Low,
\* and among rules of one severity the order of their definition.
AppliedBefore(compiled, i, j) ==
    LET order == <<"Critical", "High", "Medium", "Low">>
        place(k) == CHOOSE p \in DOMAIN order : order[p] = compiled[k].severity
    IN  place(i) < place(j) \/ (place(i) = place(j) /\ i < j)

InSeverityOrder(compiled) ==
    [k \in DOMAIN compiled |->
        compiled[CHOOSE i \in DOMAIN compiled :
                    Cardinality({j \in DOMAIN compiled : AppliedBefore(compiled, j, i)})
                       = k - 1]]

\* The rule of compiled_rules an event names.
RuleOf(event) == CHOOSE k \in DOMAIN compiled_rules : compiled_rules[k].name = event.rule_name

RECURSIVE PrePassTexts(_, _, _, _)
PrePassTexts(sorted, i, st, acc) ==
    IF i > Len(sorted) \/ st.panic THEN acc
    ELSE (CHOOSE y \in {PrePassTexts(sorted, i + 1, next, Append(acc, st.text)) :
                           next \in {RunRule(sorted[i], st, clock_step, overflow_checks)}} : TRUE)

\* text has the characters value at the bytes start to end (end excluded).
HasAtBytes(text, start, end, value) ==
    \E a, b \in 0..Len(text) :
       /\ a <= b
       /\ Slice(text, a, b) = value
       /\ ByteOffset(text, a) = start
       /\ ByteOffset(text, b) = end

\* C20: the position of every event trace_and_phantom returns is a pair of
\* byte offsets into the text its rule's pass started from (the output of
\* the pass before it, the input for the first pass), and original_value is
\* the substring of that text at those offsets.
C20_SpansReferToThePrePassText ==
    (last.op = "trace_and_phantom" /\ ~last.panic)
       => \A sorted \in {InSeverityOrder(compiled_rules)} :
             \A pre \in {PrePassTexts(sorted, 1,
                                      [panic |-> FALSE, text |-> last.input,
                                       events |-> <<>>,
                                       stats |-> InitialStats(Scenarios[scenario].rules),
                                       tokens |-> NoTokens, clock |-> 0], <<>>)} :
                \A i \in DOMAIN last.events :
                   \E k \in DOMAIN pre :
                      /\ sorted[k].name = last.events[i].rule_name
                      /\ HasAtBytes(pre[k], last.events[i].position[1],
                                    last.events[i].position[2],
                                    last.events[i].original_value)

\* A call returned an event whose span is not where its original_value is in
\* the input: an earlier pass had moved it.
C20_Witness ==
    /\ last.op = "trace_and_phantom" /\ ~last.panic
    /\ \E i \in DOMAIN last.events :
          /\ last.events[i].position[1] > 0
          /\ ~HasAtBytes(last.input, last.events[i].position[1],
                         last.events[i].position[2], last.events[i].original_value)
          /\ \E a, b \in 0..Len(last.input) :
                Slice(last.input, a, b) = last.events[i].original_value

\* The character position of text that lies at byte offset.
CharAt(text, offset) == CHOOSE a \in 0..Len(text) : ByteOffset(text, a) = offset

\* The spans of events, as character positions of the text they refer to.
SpansIn(text, events) ==
    [i \in DOMAIN events |->
        <<CharAt(text, events[i].position[1]), CharAt(text, events[i].position[2])>>]

\* text with the spans replaced by the events' phantom values, from the
\* i-th span on; from is where the span before it ended.
RECURSIVE WithSpansReplaced(_, _, _, _, _)
WithSpansReplaced(text, spans, events, i, from) ==
    IF i > Len(spans) THEN Slice(text, from, Len(text))
    ELSE Slice(text, from, spans[i][1]) \o events[i].phantom_value
            \o WithSpansReplaced(text, spans, events, i + 1, spans[i][2])

\* spans are the matches of re in text found leftmost-first and without
\* overlap: each starts where the one before ended or later, is the match
\* of re at its start, and no match starts between two of them or after the
\* last.
AreTheLeftmostMatches(text, re, spans) ==
    /\ \A i \in DOMAIN spans :
          /\ spans[i][1] >= (IF i = 1 THEN 0 ELSE spans[i - 1][2])
          /\ spans[i][1] < spans[i][2]
          /\ MatchAt(text, re, spans[i][1]) = spans[i][2]
          /\ \A p \in (IF i = 1 THEN 0 ELSE spans[i - 1][2]) .. (spans[i][1] - 1) :
                MatchAt(text, re, p) = -1
    /\ \A p \in (IF spans = <<>> THEN 0 ELSE spans[Len(spans)][2]) .. Len(text) :
          MatchAt(text, re, p) = -1

\* C21: in every pass of a trace_and_phantom call the spans of the pass's
\* events are the matches of the rule in the pre-pass text, leftmost first,
\* without overlap and in increasing order, and the output of the pass is
\* the pre-pass text with exactly those spans replaced by the events'
\* phantom values (nothing else changes, no replacement is scanned again).
C21_APassReplacesTheLeftmostMatches ==
    (last.op = "trace_and_phantom" /\ ~last.panic)
       => \A sorted \in {InSeverityOrder(compiled_rules)} :
             \A pre \in {PrePassTexts(sorted, 1,
                                      [panic |-> FALSE, text |-> last.input,
                                       events |-> <<>>,
                                       stats |-> InitialStats(Scenarios[scenario].rules),
                                       tokens |-> NoTokens, clock |-> 0], <<>>)} :
                \A k \in DOMAIN sorted :
                   \A events \in {SelectSeq(last.events,
                                            LAMBDA e : e.rule_name = sorted[k].name)} :
                      \A spans \in {SpansIn(pre[k], events)} :
                         /\ AreTheLeftmostMatches(pre[k], sorted[k].regex, spans)
                         /\ WithSpansReplaced(pre[k], spans, events, 1, 0)
                               = (IF k < Len(sorted) THEN pre[k + 1] ELSE last.text)

\* A call returned two events of one rule, and a phantom value of the pass
\* holds a match of the rule itself.
C21_Witness ==
    /\ last.op = "trace_and_phantom" /\ ~last.panic
    /\ \E i, j \in DOMAIN last.events :
          /\ i < j
          /\ last.events[i].rule_name = last.events[j].rule_name
          /\ FindAt(last.events[i].phantom_value,
                    compiled_rules[RuleOf(last.events[i])].regex, 0) # <<>>

\* The text before each pass of a trace_and_phantom(text) call, and after
\* the last one the text the call returns.
PassTexts(text) ==
    PrePassTexts(InSeverityOrder(compiled_rules), 1,
                 [panic |-> FALSE, text |-> text, events |-> <<>>,
                  stats |-> InitialStats(Scenarios[scenario].rules),
                  tokens |-> NoTokens, clock |-> 0], <<>>)

\* C22: a trace_and_phantom call adds exactly 1 to the phantoms_created of
\* every rule whose pass changed the text, however many matches the pass
\* replaced, and leaves the phantoms_created of every other rule as it was.
C22_OnePhantomPerChangingPass ==
    [][(last'.op = "trace_and_phantom" /\ ~last'.panic)
          => \A sorted \in {InSeverityOrder(compiled_rules)} :
                \A texts \in {Append(PassTexts(last'.input), last'.text)} :
                   \A k \in DOMAIN sorted :
                      trace_stats'[sorted[k].name].phantoms_created
                         = trace_stats[sorted[k].name].phantoms_created
                              + (IF texts[k] # texts[k + 1] THEN 1 ELSE 0)]_vars

\* The first call of a session returned two events of one rule, and the
\* rule's phantoms_created is 1.
C22_Witness ==
    /\ last.op = "trace_and_phantom" /\ ~last.panic /\ calls = 1
    /\ \E i, j \in DOMAIN last.events :
          /\ i < j
          /\ last.events[i].rule_name = last.events[j].rule_name
          /\ trace_stats[last.events[i].rule_name].phantoms_created = 1

\* C23: no rule's characters_traced ever wraps around: the u64 counter never
\* holds a value 2^64 + v for a negative net v (such a value is held here
\* as the negative integer v).
C23_CharactersTracedNeverWraps ==
    \A n \in DOMAIN trace_stats : trace_stats[n].characters_traced >= 0

\* C24: an engine that was constructed holds one statistics entry for each
\* of its compiled rules, keyed by the rule's name: as many entries as
\* compiled rules, also when two rules of the list carry the same name.
C24_OneStatisticsEntryPerRule ==
    (last.op = "new" /\ last.ok)
       => /\ \A k \in DOMAIN compiled_rules : compiled_rules[k].name \in DOMAIN trace_stats
          /\ Cardinality(DOMAIN trace_stats) = Len(compiled_rules)

\* The same in the sessions of Spec, whose rule lists carry no name twice:
\* through all calls and resets the entries stay one per compiled rule.
EveryRuleKeepsItsEntry ==
    /\ DOMAIN trace_stats = {compiled_rules[k].name : k \in DOMAIN compiled_rules}
    /\ Cardinality(DOMAIN trace_stats) = Len(compiled_rules)

\* The number of newline-delimited lines of input: one for each newline,
\* and one more for what follows the last newline if anything does.
NumLines(input) ==
    Cardinality({i \in DOMAIN input : input[i] = "\n"})
       + (IF input # <<>> /\ input[Len(input)] # "\n" THEN 1 ELSE 0)

\* What the engine makes of each of lines, on its own.
LineOutcomes(lines) ==
    [i \in DOMAIN lines |->
        EngineOutcome(compiled_rules, InitialStats(Scenarios[scenario].rules),
                      NoTokens, lines[i])]

\* The texts of outcomes up to the i-th with one newline between every two,
\* their events one list after the other, and how many of them have events.
RECURSIVE Gathered(_, _)
Gathered(outcomes, i) ==
    IF i = 0 THEN [text |-> <<>>, events |-> <<>>, phantomed |-> 0]
    ELSE (CHOOSE y \in {[text |-> (IF i = 1 THEN <<>> ELSE g.text \o <<"\n">>)
                                     \o outcomes[i].text,
                         events |-> g.events \o outcomes[i].events,
                         phantomed |-> g.phantomed
                                          + (IF outcomes[i].events = <<>> THEN 0 ELSE 1)] :
                           g \in {Gathered(outcomes, i - 1)}} : TRUE)

\* C25: phantom_text runs the engine on each newline-delimited line of the
\* input on its own, in input order; the text it returns is the lines'
\* outputs with one newline between every two, its events are the lines'
\* events one line after the other, none with a newline in its original
\* value; lines_processed is the number of lines and lines_phantomed the
\* number of lines with at least one event.
C25_PhantomTextWorksLineByLine ==
    (last.op = "phantom_text" /\ ~last.panic)
       => \A lines \in {Lines(last.input)} :
             /\ Len(lines) = NumLines(last.input)
             /\ \A i \in DOMAIN lines : \A c \in DOMAIN lines[i] : lines[i][c] # "\n"
             /\ \A outcomes \in {LineOutcomes(lines)} :
                   /\ \A i \in DOMAIN outcomes : ~outcomes[i].panic
                   /\ \A g \in {Gathered(outcomes, Len(outcomes))} :
                         /\ last.text = g.text
                         /\ WithoutIds(last.events) = g.events
                         /\ last.lines_phantomed = g.phantomed
             /\ last.lines_processed = NumLines(last.input)
             /\ \A e \in DOMAIN last.events :
                   \A c \in DOMAIN last.events[e].original_value :
                      last.events[e].original_value[c] # "\n"

\* phantom_text returned for an input of several lines of which some, not
\* all, gave events.
C25_Witness ==
    /\ last.op = "phantom_text" /\ ~last.panic
    /\ last.lines_processed >= 3
    /\ last.lines_phantomed >= 2
    /\ last.lines_phantomed < last.lines_processed

\* C26: a returning trace_and_phantom call updates a rule's statistics (one
\* more in phantoms_created, last_trace set) if and only if the call
\* returned an event of that rule, and leaves the statistics of a rule
\* without an event as they were.
C26_StatisticsFollowTheEvents ==
    [][(last'.op = "trace_and_phantom" /\ ~last'.panic)
          => \A n \in DOMAIN trace_stats :
                IF \E i \in DOMAIN last'.events : last'.events[i].rule_name = n
                THEN /\ trace_stats'[n].phantoms_created = trace_stats[n].phantoms_created + 1
                     /\ trace_stats'[n].first_trace # None
                     /\ trace_stats'[n].last_trace # None
                ELSE trace_stats'[n] = trace_stats[n]]_vars

OneMatchPerChangingPass(line) ==
    \A sorted \in {InSeverityOrder(compiled_rules)} :
       \A outcome \in {EngineOutcome(compiled_rules,
                                     InitialStats(Scenarios[scenario].rules),
                                     NoTokens, line)} :
          \A texts \in {Append(PassTexts(line), outcome.text)} :
             \A k \in DOMAIN sorted :
                texts[k] # texts[k + 1]
                   => Cardinality({i \in DOMAIN outcome.events :
                                      outcome.events[i].rule_name = sorted[k].name}) = 1

C29_OnlyTheRulesOfTheSeverity ==
    last.op = "get_rules_by_severity"
       => last.rules = SelectSeq(last.input, LAMBDA rule : rule.severity = last.severity)

=============================================================================
